---------------------------- MODULE Spec2Model ----------------------------
(***************************************************************************)
(* A model of src/download_rainfall.py: one call of fetch_rainfall against *)
(* the NOAA CDO API (paginated, optionally chunked), its Access Data       *)
(* Service fallback, and the generic service (Spec); of has_data_in_range  *)
(* (ProbeSpec) and of its agreement with a fetch (AgreeSpec); of the       *)
(* station-metadata reads with their cache (MetaSpec); of                  *)
(* _fetch_rainfall_ads_fallback called on its own (FallbackSpec) and of    *)
(* its choice of the rainfall column (ColumnSpec); of the command line,    *)
(* main (MainSpec); of two calls of fetch_rainfall in one process          *)
(* (TwoSpec); of _normalise_iso_date on text (DateSpec); of the            *)
(* normalisation of a frame (FrameSpec); of pagination against a server    *)
(* that serves what it holds (HonestSpec); of _cache_get and _cache_set    *)
(* called by threads while time passes (TtlSpec); and of the batch queue   *)
(* of the window, src/download_rainfall/window.py (GuiSpec).               *)
(*                                                                         *)
(* One step of the model is one HTTP exchange together with all the code   *)
(* the call runs until it issues its next request or returns.  The        *)
(* servers are adversarial: every exchange draws its answer from the set   *)
(* of answers the code distinguishes.                                      *)
(*                                                                         *)
(* Encodings.  An optional integer is a tuple: <<>> is None, <<n>> is n.   *)
(* A date string is a record [form, day]: form "date" is YYYY-MM-DD,       *)
(* "datetime" is YYYY-MM-DDTHH:MM:SS, "text" is text no format matches;    *)
(* day is the day number of the calendar date it names.  A station id is   *)
(* the tuple of its pieces, the separator ":" being a piece of its own.    *)
(***************************************************************************)
EXTENDS Integers, Sequences, FiniteSets, TLC

VARIABLES
    pc,                 \* where the call stands: idle, page, fallback, generic,
                        \*   probe, probe_fallback, meta, ads, clamp,
                        \*   normalise, normalised, frame, framed, columns,
                        \*   picked, done, exited
    args,               \* the arguments of the call
    current_start,      \* chunk loop: first day of the segment
    current_end,        \* chunk loop: last day of the segment
    seg_start,          \* _fetch_noaa_segment: startdate sent
    seg_end,            \* _fetch_noaa_segment: enddate sent
    offset_local,       \* _fetch_noaa_segment: 1-based offset of the next page
    collected,          \* _fetch_noaa_segment: records of the pages so far
    total_count_local,  \* _fetch_noaa_segment: last metadata.resultset.count seen
    all_frames,         \* the non-empty segment frames, in request order
    result,             \* what the call returned or raised
    log,                \* history: every HTTP request issued, in order
    lastResp,           \* history: the answer to the last request (count apart)
    segments,           \* history: every finished segment, the records its
                        \*   pages held and how it ended
    served,             \* history: number of records the servers have sent
    daily,              \* history: every answer so far held at most one record
                        \*   per day, and only days of the range asked for
    reported,           \* history: the counts carried by the pages of the
                        \*   segment under way
    probed,             \* history: the answer to the single-record probe of
                        \*   has_data_in_range
    cache,              \* the metadata cache: the value stored under each key
    earliest,           \* station_date_range: what its first query returned
    located,            \* find_stations_by_city: the geocoded point
    exit_code,          \* main: the exit status of the process, None while it runs
    out_file,           \* main: the output file has been written
    heard,              \* history: the answers the fetch has received, in order
    other,              \* the locals and histories of a second fetch, while
                        \*   the first one runs
    failed,             \* history: the requests of a metadata read, by number,
                        \*   that ended in a transport or an HTTP error
    gui,                \* the window: its batch queue, its download process,
                        \*   its pending timers and its buttons
    ttl                 \* the metadata cache in time: the clock, the lock,
                        \*   the stored entries and the threads calling it

vars == <<pc, args, current_start, current_end, seg_start, seg_end,
          offset_local, collected, total_count_local, all_frames, result,
          log, lastResp, segments, served, daily, reported, probed,
          cache, earliest, failed, located, exit_code, out_file, heard, other,
          gui, ttl>>

---------------------------------------------------------------------------
(* Bounds of the model *)

\* Days are numbered 1..MaxDay.
MaxDay == 2
\* The servers send at most MaxRecords records during one call.
MaxRecords == 3
\* At most MaxRequests HTTP requests are followed (a negative chunk_days
\* never leaves the segment loop).
MaxRequests == 3
\* The largest metadata.resultset.count a server reports.
MaxCount == 3
\* The page size: limit_local = 1000 in the source, scaled down so that a
\* full page can be enumerated.
limit_local == 2
\* A metadata endpoint lists at most MaxItems items in one answer.
MaxItems == 2
\* The user adds at most MaxJobs jobs to the batch queue of the window.
MaxJobs == 2
\* The user presses Run at most MaxRuns times.
MaxRuns == 2
\* The clock of the metadata cache runs from 0 to MaxClock.
MaxClock == 3
\* _CACHE_TTL_SECONDS, the lifetime of a cache entry (24 hours), scaled to
\* the ticks of that clock.
CACHE_TTL_SECONDS == 1
\* The threads make at most MaxCalls calls of _cache_get and _cache_set.
MaxCalls == 3

---------------------------------------------------------------------------
(* Values *)

None == <<>>
Some(n) == <<n>>

NOAA_URL == "https://www.ncdc.noaa.gov/cdo-web/api/v2/data"
GENERIC_URL == "https://example.com/rainfall"
ADS_URL == "https://www.ncei.noaa.gov/access/services/data/v1"

NoneStr == "None"

Days == 1..MaxDay

IsoDate(d) == [form |-> "date", day |-> d]
DateStrings ==
    {IsoDate(d) : d \in Days}
        \cup {[form |-> "datetime", day |-> 1], [form |-> "text", day |-> 0]}

Stations == { <<"US1PAAL0001">>, <<"GHCND", ":", "US1PAAL0001">> }

ChunkDays == {None, Some(0), Some(1), Some(2), Some(-1)}

RainValues == {"0.25"}

\* The calls of find_stations_by_city that are followed: buffer in
\* quarter degrees, and the limit.
FindCalls == {[buffer |-> 1, limit |-> 1], [buffer |-> 4, limit |-> 2]}

\* The keys of the metadata cache: ("station_search", city, buffer, limit)
\* for one city, and the dataset and datatype keys of one station.
CacheKeys ==
    {<<"station_search", c.buffer, c.limit>> : c \in FindCalls}
        \cup {<<"datasets">>, <<"datatypes">>}

\* The value of `located` outside a station search.
NoPoint == [lat |-> 0, lon |-> 0, parses |-> FALSE]

\* The window as __init__ leaves it: an empty queue that is not active, a
\* download process that is not running, no timer pending, Run enabled,
\* Start Queue and Cancel disabled.  Jobs are numbered in the order the user
\* adds them.  `killed` tells that kill() was called on the running process.
\* The last four fields are history: the queue was stopped by Cancel and not
\* started since, a job was popped or launched in that condition,
\* process.start was called on a process that was running, and the number
\* of calls of process.start.
Window ==
    [queue |-> <<>>, queue_active |-> FALSE, state |-> "NotRunning",
     killed |-> FALSE, timers |-> 0, run_btn |-> TRUE,
     start_queue_btn |-> FALSE, cancel_btn |-> FALSE, added |-> 0, runs |-> 0,
     stopped |-> FALSE, late |-> FALSE, clash |-> FALSE, starts |-> 0]

\* The threads that call the metadata cache, and the key parts they pass.
Threads == {1, 2}
KeyParts == {<<"datasets">>}

\* A thread outside a cache call.  Objects are numbered from 1 in the order
\* they are made and 0 stands for no object; `arg` is the object the caller
\* passed to _cache_set and `ret` the one _cache_get returned to it.
Outside ==
    [pc |-> "outside", key |-> <<>>, now |-> 0, expires |-> 0, value |-> 0,
     entry |-> <<>>, arg |-> 0, ret |-> 0]

\* The cache before any call: the clock at 0, the lock free (0), no entry
\* under any key, no object made and every thread outside a call.
NoCalls ==
    [clock |-> 0, lock |-> 0, store |-> [k \in KeyParts |-> <<>>],
     heap |-> <<>>, threads |-> [t \in Threads |-> Outside], calls |-> 0]

\* A record as a server sends it: its date and its rainfall value.  The
\* names of its fields are the answer's columns.
Records == [date : Days, value : RainValues]

RECURSIVE SeqsUpTo(_, _)
SeqsUpTo(S, n) ==
    IF n = 0 THEN { <<>> }
    ELSE LET shorter == SeqsUpTo(S, n - 1)
         IN  shorter \cup {Append(s, x) : s \in {t \in shorter : Len(t) = n - 1}, x \in S}

Min(a, b) == IF a <= b THEN a ELSE b

---------------------------------------------------------------------------
(* Date helpers *)

\* _normalise_iso_date: a YYYY-MM-DD prefix is cut out, other text is kept.
normalise_iso_date(value) ==
    IF value.form \in {"date", "datetime"} THEN IsoDate(value.day) ELSE value

\* _coerce_date: the date of the normalised text, None when it is no date.
coerce_date(value) ==
    LET normalised == normalise_iso_date(value)
    IN  IF normalised.form = "date" THEN Some(normalised.day) ELSE None

\* datetime.date.isoformat
isoformat(d) == IsoDate(d)

---------------------------------------------------------------------------
(* Station identifiers *)

HasColon(station) == \E i \in 1..Len(station) : station[i] = ":"

\* stationid_local = station if ":" in station else f"{dataset}:{station}"
stationid_local_of(station, dataset) ==
    IF HasColon(station) THEN station ELSE <<dataset, ":">> \o station

\* A variant of raw_id_of that keeps the dataset prefix.
raw_id_unstripped(station) == station

\* _, raw_id = station.split(":", 1)
raw_id_of(station) ==
    IF HasColon(station)
    THEN LET first == CHOOSE i \in 1..Len(station) :
                          /\ station[i] = ":"
                          /\ \A j \in 1..(i - 1) : station[j] # ":"
         IN  SubSeq(station, first + 1, Len(station))
    ELSE station

---------------------------------------------------------------------------
(* Frames *)

RECURSIVE Insert(_, _)
Insert(row, sorted) ==
    IF sorted = <<>> THEN <<row>>
    ELSE IF row.Datetime < Head(sorted).Datetime
         THEN <<row>> \o sorted
         ELSE <<Head(sorted)>> \o Insert(row, Tail(sorted))

\* A variant of sort_values that leaves the rows in the order received.
sort_values_skipped(df) == df

\* DataFrame.sort_values("Datetime").reset_index(drop=True)
RECURSIVE sort_values(_)
sort_values(df) ==
    IF df = <<>> THEN <<>>
    ELSE Insert(df[Len(df)], sort_values(SubSeq(df, 1, Len(df) - 1)))

\* A variant of concat that keeps the first frame only.
concat_first(frames) == IF frames = <<>> THEN <<>> ELSE Head(frames)

\* pd.concat(all_frames, ignore_index=True)
RECURSIVE concat(_)
concat(frames) ==
    IF frames = <<>> THEN <<>> ELSE Head(frames) \o concat(Tail(frames))

\* The Datetime/Rainfall rows of a list of records.
Rows(records) ==
    [i \in 1..Len(records) |->
        [Datetime |-> records[i].date, Rainfall |-> records[i].value]]

Pending == [kind |-> "pending", exc |-> "", msg |-> "", status |-> 0, series |-> <<>>]
Returned(series) == [kind |-> "ok", exc |-> "", msg |-> "", status |-> 0, series |-> series]
Raised(exc, msg, status) ==
    [kind |-> "error", exc |-> exc, msg |-> msg, status |-> status, series |-> <<>>]

\* The column sets a CDO or generic answer may use.
PrimarySchemas ==
    { {"date", "value"}, {"Datetime", "Rainfall"}, {"DATE", "PRCP"},
      {"date", "PRCP"}, {"station", "value"} }

\* The first date text of a frame that pd.to_datetime cannot parse; the
\* empty string when it parses them all.
DateTexts == {"", "n/a", "No rainfall data"}

\* The ValueError of pd.to_datetime: its message quotes the text.
to_datetime_error(text) ==
    Raised("ValueError",
           "Unknown datetime string format, unable to parse: " \o text, 0)

\* A variant of normalise that takes DATE for a date column too.
normalise_any_date(df, columns, unparsed) ==
    IF ~ (columns \cap {"date", "Datetime", "DATE"} # {})
    THEN Raised("ValueError", "Response missing 'date' field", 0)
    ELSE IF df # <<>> /\ unparsed # ""
    THEN to_datetime_error(unparsed)
    ELSE IF ~ ("value" \in columns \/ "Rainfall" \in columns)
    THEN Raised("ValueError", "Response missing 'value' field", 0)
    ELSE Returned(sort_values(Rows(df)))

\* A variant of normalise that does not look for the columns.
normalise_unchecked(df, columns, unparsed) == Returned(sort_values(Rows(df)))

\* Lines 457-471: the Datetime and Rainfall columns, sorted.
normalise(df, columns, unparsed) ==
    IF ~ ("date" \in columns \/ "Datetime" \in columns)
    THEN Raised("ValueError", "Response missing 'date' field", 0)
    ELSE IF df # <<>> /\ unparsed # ""
    THEN to_datetime_error(unparsed)
    ELSE IF ~ ("value" \in columns \/ "Rainfall" \in columns)
    THEN Raised("ValueError", "Response missing 'value' field", 0)
    ELSE Returned(sort_values(Rows(df)))

---------------------------------------------------------------------------
(* The answers of the servers *)

Counts == {None} \cup {Some(n) : n \in 0..MaxCount}

NoAnswer ==
    [service |-> "", outcome |-> "", status |-> 0, content_type |-> "",
     count |-> None, columns |-> {}, records |-> <<>>, unparsed |-> ""]

Failure(service, outcome, status) ==
    [NoAnswer EXCEPT !.service = service, !.outcome = outcome, !.status = status]

\* requests.get raised instead of answering.
TransportErrors == {"Timeout", "ConnectionError"}
\* Statuses for which raise_for_status raises HTTPError.
ErrorStatuses == {400, 404, 401, 500}

\* What the CDO API may answer to one page request, with room for at most
\* `room` records.  The columns of its records are read at normalisation.
PrimaryResponses(room) ==
    {Failure("cdo", o, 0) : o \in TransportErrors}
        \cup {Failure("cdo", "response", s) : s \in ErrorStatuses}
        \cup {[Failure("cdo", "response", 200) EXCEPT !.content_type = "text/html"]}
        \cup {[Failure("cdo", "response", 200) EXCEPT
                  !.content_type = "application/json", !.count = c, !.records = r] :
                c \in Counts, r \in SeqsUpTo(Records, Min(limit_local, room))}

\* The column sets an ADS answer may use.
FallbackSchemas ==
    { {"DATE", "PRCP"}, {"date", "prcp"}, {"Date", "value"},
      {"DATE", "SNOW"}, {"STATION", "PRCP"} }

\* What the Access Data Service may answer.
FallbackResponses(room) ==
    {Failure("ads", o, 0) : o \in TransportErrors}
        \cup {Failure("ads", "response", s) : s \in ErrorStatuses}
        \cup {[Failure("ads", "response", 200) EXCEPT
                  !.content_type = t, !.columns = c, !.records = r] :
                t \in {"application/json"}, c \in FallbackSchemas,
                r \in SeqsUpTo(Records, room)}

\* What the generic service may answer.
GenericResponses(room) ==
    {Failure("generic", o, 0) : o \in TransportErrors}
        \cup {Failure("generic", "response", s) : s \in ErrorStatuses}
        \cup {[Failure("generic", "response", 200) EXCEPT !.content_type = "text/html"]}
        \cup {resp \in
                 {[Failure("generic", "response", 200) EXCEPT
                      !.content_type = t, !.columns = c, !.records = r,
                      !.unparsed = u] :
                    t \in {"application/json", "text/csv"}, c \in PrimarySchemas,
                    r \in SeqsUpTo(Records, room), u \in DateTexts} :
                 resp.records # <<>> \/ resp.unparsed = ""}

---------------------------------------------------------------------------
(* The Access Data Service fallback *)

NumericTexts == {"0.25", "0.5"}

\* pd.to_numeric(..., errors="coerce")
to_numeric(v) == IF v \in NumericTexts THEN v ELSE "NaN"

\* str.upper and str.lower on the datatype identifiers of the model.
upper(s) ==
    IF s \in {"PRCP", "prcp", "Prcp"} THEN "PRCP"
    ELSE IF s \in {"SNOW", "snow"} THEN "SNOW" ELSE s
lower(s) ==
    IF s \in {"PRCP", "prcp", "Prcp"} THEN "prcp"
    ELSE IF s \in {"SNOW", "snow"} THEN "snow" ELSE s

\* A variant of no_coverage that takes every error status for "no coverage".
no_coverage_any_error(status) == status # 200

\* Line 357: `exc.response.status_code in {400, 404}`
no_coverage(status) == status \in {400, 404}

\* A variant of ads_no_data that takes 404 alone for "no data".
ads_no_data_404(status) == status = 404

\* Line 1019: `exc.response.status_code in {400, 404}`
ads_no_data(status) == status \in {400, 404}

\* A variant of is_json that accepts every content type.
is_json_unchecked(content_type) == TRUE

\* `"application/json" in content_type`
is_json(content_type) == content_type = "application/json"

\* for candidate in candidates: if candidate in columns: ...; break
FirstIn(candidates, columns) ==
    IF \E i \in 1..Len(candidates) : candidates[i] \in columns
    THEN LET first == CHOOSE i \in 1..Len(candidates) :
                          /\ candidates[i] \in columns
                          /\ \A j \in 1..(i - 1) : candidates[j] \notin columns
         IN  <<candidates[first]>>
    ELSE <<>>

\* A variant of rainfall_col_of whose list of common names is PRCP, PRCP_MM,
\* PRCP_IN, PRECIP, precipitation.
rainfall_col_of_short(datatype, columns) ==
    LET exact == IF datatype # NoneStr
                 THEN FirstIn(<<datatype, upper(datatype), lower(datatype)>>, columns)
                 ELSE <<>>
    IN  IF exact # <<>> THEN exact
        ELSE FirstIn(<<"PRCP", "PRCP_MM", "PRCP_IN", "PRECIP",
                       "precipitation">>, columns)

\* Lines 1045-1065: the rainfall column of an ADS frame.
rainfall_col_of(datatype, columns) ==
    LET exact == IF datatype # NoneStr
                 THEN FirstIn(<<datatype, upper(datatype), lower(datatype)>>, columns)
                 ELSE <<>>
    IN  IF exact # <<>> THEN exact
        ELSE FirstIn(<<"PRCP", "prcp", "PRCP_MM", "PRCP_IN", "PRECIP",
                       "precipitation", "value">>, columns)

\* A variant of fallback_request that asks for the last segment's range.
fallback_request_segment(a) ==
    [service |-> "ads", stationid |-> raw_id_of(a.station),
     startdate |-> seg_start, enddate |-> seg_end, offset |-> 0]

\* The request _fetch_rainfall_ads_fallback sends.
fallback_request(a) ==
    [service |-> "ads", stationid |-> raw_id_of(a.station),
     startdate |-> a.start, enddate |-> a.end, offset |-> 0]

\* _fetch_rainfall_ads_fallback, from the answer on: the frame it returns
\* or the exception it raises.
fetch_rainfall_ads_fallback(a, resp) ==
    IF resp.outcome \in TransportErrors
    THEN Raised(resp.outcome, "", 0)
    ELSE IF ads_no_data(resp.status)
    THEN Returned(<<>>)
    ELSE IF resp.status # 200
    THEN Raised("HTTPError", "", resp.status)
    ELSE IF resp.records = <<>>
    THEN Returned(<<>>)
    ELSE IF FirstIn(<<"DATE", "date", "Date">>, resp.columns) = <<>>
    THEN Raised("ValueError", "Response missing date field", 0)
    ELSE IF rainfall_col_of(a.datatype, resp.columns) = <<>>
    THEN Raised("ValueError", "Response missing rainfall field", 0)
    ELSE Returned([i \in 1..Len(resp.records) |->
                     [Datetime |-> resp.records[i].date,
                      Rainfall |-> to_numeric(resp.records[i].value)]])

\* A variant of after_fallback that never returns the fallback's frame.
after_fallback_discards(outcome) ==
    Raised("ValueError", "No rainfall data returned", 0)

\* A variant of after_fallback without the `fallback.empty` test.
after_fallback_unchecked(outcome) ==
    IF outcome.kind = "ok"
    THEN Returned(sort_values(outcome.series))
    ELSE Raised("ValueError", "No rainfall data returned", 0)

\* A variant of after_fallback that lets the fallback's exception through.
after_fallback_propagates(outcome) ==
    IF outcome.kind = "ok" /\ outcome.series # <<>>
    THEN Returned(sort_values(outcome.series))
    ELSE IF outcome.kind = "error" THEN outcome
    ELSE Raised("ValueError", "No rainfall data returned", 0)

\* A variant of after_fallback that gives up, without looking at the
\* frame, once the cache holds the datatypes of the station.
after_fallback_cached(outcome) ==
    IF cache[<<"datatypes">>] = None /\ outcome.kind = "ok" /\ outcome.series # <<>>
    THEN Returned(sort_values(outcome.series))
    ELSE Raised("ValueError", "No rainfall data returned", 0)

\* Lines 416-432: what fetch_rainfall makes of the fallback's outcome.
after_fallback(outcome) ==
    IF outcome.kind = "ok" /\ outcome.series # <<>>
    THEN Returned(sort_values(outcome.series))
    ELSE Raised("ValueError", "No rainfall data returned", 0)

---------------------------------------------------------------------------
(* fetch_rainfall *)

\* The calls followed.  An unchunked call of the CDO API (chunk_days absent
\* or zero) takes every combination of dates, dataset and datatype; the
\* station carries its dataset prefix in the calls without chunk_days only
\* (the station reaches nothing but the identifier of the requests).  A
\* chunked call names dates that are YYYY-MM-DD or match no format (a date
\* with a time is cut to its day before the segments are); with a negative
\* chunk_days both are YYYY-MM-DD and the first of them is day 1 (the
\* segments of such a call never advance).  The calls of a
\* generic service leave dataset, datatype and chunk_days at their defaults
\* (that branch reads none of them) and name the station without a prefix
\* (it is sent as it is given).
Args ==
    [url : {NOAA_URL}, station : {<<"US1PAAL0001">>},
     start : DateStrings, end : DateStrings,
     dataset : {NoneStr, "GHCND"}, datatype : {NoneStr, "PRCP"},
     chunk_days : {c \in ChunkDays : c = None \/ c[1] = 0}]
        \cup [url : {NOAA_URL}, station : {<<"US1PAAL0001">>},
              start : {s \in DateStrings : s.form # "datetime"},
              end : {s \in DateStrings : s.form # "datetime"},
              dataset : {NoneStr, "GHCND"}, datatype : {NoneStr, "PRCP"},
              chunk_days : {c \in ChunkDays : c # None /\ c[1] > 0}]
        \cup [url : {NOAA_URL}, station : Stations,
              start : DateStrings, end : DateStrings,
              dataset : {NoneStr, "GHCND"}, datatype : {NoneStr, "PRCP"},
              chunk_days : {None}]
        \cup [url : {NOAA_URL}, station : {<<"US1PAAL0001">>},
              start : {IsoDate(1)}, end : {IsoDate(d) : d \in Days},
              dataset : {"GHCND"}, datatype : {"PRCP"},
              chunk_days : {c \in ChunkDays : c # None /\ c[1] < 0}]
        \cup [url : {GENERIC_URL}, station : {<<"US1PAAL0001">>},
              start : DateStrings, end : DateStrings,
              dataset : {NoneStr}, datatype : {NoneStr}, chunk_days : {None}]

NoArgs ==
    [url |-> "", station |-> <<>>, start |-> IsoDate(0), end |-> IsoDate(0),
     dataset |-> NoneStr, datatype |-> NoneStr, chunk_days |-> None]

\* A variant of Truthy that takes every chunk_days for absent.
Truthy_never(chunk_days) == FALSE

\* `if chunk_days:`
Truthy(chunk_days) == chunk_days # None /\ chunk_days[1] # 0

\* The local variables of the call take these values.
Locals(p, cs, ce, ss, se, off, coll, total, frames, res) ==
    /\ pc' = p
    /\ current_start' = cs
    /\ current_end' = ce
    /\ seg_start' = ss
    /\ seg_end' = se
    /\ offset_local' = off
    /\ collected' = coll
    /\ total_count_local' = total
    /\ all_frames' = frames
    /\ result' = res

\* The call ends with `res`; its locals stay as they are.
Finish(res) ==
    /\ pc' = "done"
    /\ result' = res
    /\ UNCHANGED <<current_start, current_end, seg_start, seg_end,
                   offset_local, collected, total_count_local, all_frames>>

\* Lines 414-471 once the primary requests are over: with no frame the
\* fallback is asked next, otherwise the frames are concatenated and
\* normalised.  The columns of the collected records are read here first.
after_primary(frames) ==
    IF frames = <<>>
    THEN Locals("fallback", current_start, current_end, seg_start, seg_end,
                1, <<>>, None, frames, Pending)
    ELSE \E res \in {normalise(concat(frames), columns, unparsed) :
                         columns \in PrimarySchemas, unparsed \in DateTexts} :
            Locals("done", current_start, current_end, seg_start, seg_end,
                   1, <<>>, None, frames, res)

\* A variant of chunk_loop that sends the end of the whole range as the
\* segment's enddate.
chunk_loop_unclipped(a, cs, frames) ==
    LET end_date_full == coerce_date(a.end)[1]
        one_day == a.chunk_days[1]
    IN  IF cs <= end_date_full
        THEN LET ce == Min(cs + one_day - 1, end_date_full)
             IN  Locals("page", cs, ce, isoformat(cs), isoformat(end_date_full),
                        1, <<>>, None, frames, Pending)
        ELSE after_primary(frames)

\* A variant of chunk_loop whose segments end chunk_days after their start.
chunk_loop_long(a, cs, frames) ==
    LET end_date_full == coerce_date(a.end)[1]
        one_day == a.chunk_days[1]
    IN  IF cs <= end_date_full
        THEN LET ce == Min(cs + one_day, end_date_full)
             IN  Locals("page", cs, ce, isoformat(cs), isoformat(ce),
                        1, <<>>, None, frames, Pending)
        ELSE after_primary(frames)

\* Lines 401-402: the head of the segment loop with current_start = cs.
chunk_loop(a, cs, frames) ==
    LET end_date_full == coerce_date(a.end)[1]
        one_day == a.chunk_days[1]
    IN  IF cs <= end_date_full
        THEN LET ce == Min(cs + one_day - 1, end_date_full)
             IN  Locals("page", cs, ce, isoformat(cs), isoformat(ce),
                        1, <<>>, None, frames, Pending)
        ELSE after_primary(frames)

\* A variant of missing_identifiers that tests the dataset alone.
missing_dataset_only(a) == a.dataset = NoneStr

\* `dataset is None or datatype is None`
missing_identifiers(a) == a.dataset = NoneStr \/ a.datatype = NoneStr

\* Lines 315-412 up to the first request.
enter(a) ==
    IF a.url = NOAA_URL
    THEN IF missing_identifiers(a)
         THEN Finish(Raised("ValueError",
                            "dataset and datatype must be provided for NOAA requests", 0))
         ELSE IF Truthy(a.chunk_days)
         THEN LET start_date_full == coerce_date(a.start)
                  end_date_full == coerce_date(a.end)
              IN  IF /\ start_date_full # None
                     /\ end_date_full # None
                     /\ start_date_full[1] <= end_date_full[1]
                  THEN chunk_loop(a, start_date_full[1], <<>>)
                  ELSE after_primary(<<>>)
         ELSE Locals("page", 0, 0, a.start, a.end, 1, <<>>, None, <<>>, Pending)
    ELSE Locals("generic", 0, 0, seg_start, seg_end, 1, <<>>, None, <<>>, Pending)

\* A variant of segment_returns that starts the next segment two days
\* after the end of the last.
segment_returns_gap(a, df) ==
    LET frames == IF df # <<>> THEN Append(all_frames, df) ELSE all_frames
    IN  IF Truthy(a.chunk_days)
        THEN chunk_loop(a, current_end + 2, frames)
        ELSE after_primary(frames)

\* A variant of segment_returns that asks again for a segment that came
\* back without records.
segment_returns_retry(a, df) ==
    LET frames == IF df # <<>> THEN Append(all_frames, df) ELSE all_frames
    IN  IF Truthy(a.chunk_days)
        THEN chunk_loop(a, IF df = <<>> THEN current_start ELSE current_end + 1,
                        frames)
        ELSE after_primary(frames)

\* _fetch_noaa_segment returns df: lines 406-408 and 411-412.
segment_returns(a, df) ==
    LET frames == IF df # <<>> THEN Append(all_frames, df) ELSE all_frames
    IN  IF Truthy(a.chunk_days)
        THEN chunk_loop(a, current_end + 1, frames)
        ELSE after_primary(frames)

\* A variant of count_reached that stops one record later.
count_reached_late(total, offset) ==
    total # None /\ offset + limit_local > total[1] + 1

\* A variant of count_reached that ignores the total.
count_ignored(total, offset) == FALSE

\* Lines 381-385: the page just read reaches the total the server reported.
count_reached(total, offset) == total # None /\ offset + limit_local > total[1]

\* The request of one page of _fetch_noaa_segment.
primary_request(a) ==
    [service |-> "cdo", stationid |-> stationid_local_of(a.station, a.dataset),
     startdate |-> seg_start, enddate |-> seg_end, offset |-> offset_local]

\* The days of the segment asked for.
SegmentDays ==
    LET s == coerce_date(seg_start)
        e == coerce_date(seg_end)
    IN  IF s # None /\ e # None THEN s[1]..e[1] ELSE Days

NoDuplicateDays(records) ==
    \A i, j \in 1..Len(records) : records[i].date = records[j].date => i = j

\* The locals and histories of a fetch that has not been called.
NoFetch ==
    [pc |-> "idle", args |-> NoArgs, current_start |-> 0, current_end |-> 0,
     seg_start |-> IsoDate(0), seg_end |-> IsoDate(0), offset_local |-> 1,
     collected |-> <<>>, total_count_local |-> None, all_frames |-> <<>>,
     result |-> Pending, log |-> <<>>, lastResp |-> NoAnswer,
     segments |-> <<>>, reported |-> {}, heard |-> <<>>, leads |-> FALSE]

Init ==
    /\ pc = "idle"
    /\ args = NoArgs
    /\ current_start = 0
    /\ current_end = 0
    /\ seg_start = IsoDate(0)
    /\ seg_end = IsoDate(0)
    /\ offset_local = 1
    /\ collected = <<>>
    /\ total_count_local = None
    /\ all_frames = <<>>
    /\ result = Pending
    /\ log = <<>>
    /\ lastResp = NoAnswer
    /\ segments = <<>>
    /\ served = 0
    /\ daily = TRUE
    /\ reported = {}
    /\ probed = NoAnswer
    /\ cache = [k \in CacheKeys |-> None]
    /\ earliest = None
    /\ located = NoPoint
    /\ exit_code = None
    /\ out_file = FALSE
    /\ heard = <<>>
    /\ other = NoFetch
    /\ failed = {}
    /\ gui = Window
    /\ ttl = NoCalls

\* fetch_rainfall is called.
Call ==
    /\ pc = "idle"
    /\ \E a \in Args :
          /\ args' = a
          /\ enter(a)
    /\ UNCHANGED <<log, lastResp, segments, served, daily, reported, probed,
                   cache, earliest, failed, located, exit_code, out_file, heard, other, gui, ttl>>

\* A variant of aborted_frame that keeps the records of the earlier pages.
aborted_frame_keeps(records) == records

\* Line 359: `return pd.DataFrame()` after an HTTP 400/404, whatever the
\* earlier pages of the segment held.
aborted_frame(records) == <<>>

\* A variant of page_verdict that looks at the total before the length of
\* the page.
page_verdict_count_first(page, total, offset) ==
    IF count_reached(total, offset) THEN "count reached"
    ELSE IF page = <<>> THEN "empty page"
    ELSE IF Len(page) < limit_local THEN "short page"
    ELSE "more"

\* Lines 377-386: what the loop does after it has appended the page.
page_verdict(page, total, offset) ==
    IF page = <<>> THEN "empty page"
    ELSE IF Len(page) < limit_local THEN "short page"
    ELSE IF count_reached(total, offset) THEN "count reached"
    ELSE "more"

\* One page request of _fetch_noaa_segment answered with `resp` (lines
\* 346-387), then the caller's code up to the next request.
page_answered(resp) ==
    LET both == collected \o resp.records
        total == IF resp.count # None THEN resp.count ELSE total_count_local
        verdict == page_verdict(resp.records, total, offset_local)
        more == /\ resp.outcome = "response" /\ resp.status = 200
                /\ is_json(resp.content_type)
                /\ verdict = "more"
        ended(how, df) ==
            /\ segment_returns(args, df)
            /\ segments' = Append(segments,
                   [start |-> seg_start, end |-> seg_end,
                    how |-> how, rows |-> Len(df), got |-> both,
                    total |-> IF how = "count reached" THEN total ELSE None])
    IN  /\ log' = Append(log, primary_request(args))
        /\ lastResp' = [resp EXCEPT !.count = None]
        /\ served' = served + Len(resp.records)
        /\ reported' = IF more THEN reported \cup {resp.count} ELSE {}
        /\ daily' = (daily /\ NoDuplicateDays(both)
                     /\ \A i \in 1..Len(both) : both[i].date \in SegmentDays)
        /\ IF resp.outcome \in TransportErrors
           THEN Finish(Raised(resp.outcome, "", 0)) /\ UNCHANGED segments
           ELSE IF no_coverage(resp.status)
           THEN ended("no coverage", aborted_frame(collected))
           ELSE IF resp.status # 200
           THEN Finish(Raised("HTTPError", "", resp.status)) /\ UNCHANGED segments
           ELSE IF ~ is_json(resp.content_type)
           THEN /\ Finish(Raised("ValueError", "Unsupported response format", 0))
                /\ UNCHANGED segments
           ELSE IF verdict # "more"
           THEN ended(verdict, both)
           ELSE /\ Locals("page", current_start, current_end, seg_start, seg_end,
                          offset_local + limit_local, both, total,
                          all_frames, Pending)
                /\ UNCHANGED segments
        /\ UNCHANGED <<args, probed, cache, earliest, failed, located,
                       exit_code, out_file>>

\* One page request of _fetch_noaa_segment and its answer.
PrimaryPage ==
    /\ pc = "page"
    /\ Len(log) < MaxRequests
    /\ \E resp \in PrimaryResponses(MaxRecords - served) : page_answered(resp)
    /\ UNCHANGED <<heard, other, gui, ttl>>

\* The single request of _fetch_rainfall_ads_fallback answered with `resp`,
\* then lines 426-432.
fallback_answered(resp) ==
    /\ log' = Append(log, fallback_request(args))
    /\ lastResp' = resp
    /\ served' = served + Len(resp.records)
    /\ Finish(after_fallback(fetch_rainfall_ads_fallback(args, resp)))
    /\ UNCHANGED <<args, segments, daily, reported, probed,
                   cache, earliest, failed, located, exit_code, out_file>>

\* The single request of _fetch_rainfall_ads_fallback and its answer.
Fallback ==
    /\ pc = "fallback"
    /\ \E resp \in FallbackResponses(MaxRecords - served) : fallback_answered(resp)
    /\ UNCHANGED <<heard, other, gui, ttl>>

\* The single request to a generic service and its answer (lines 436-471).
Generic ==
    /\ pc = "generic"
    /\ \E resp \in GenericResponses(MaxRecords - served) :
          /\ log' = Append(log, [service |-> "generic", stationid |-> args.station,
                                 startdate |-> args.start, enddate |-> args.end,
                                 offset |-> 0])
          /\ lastResp' = resp
          /\ served' = served + Len(resp.records)
          /\ IF resp.outcome \in TransportErrors
             THEN Finish(Raised(resp.outcome, "", 0))
             ELSE IF resp.status # 200
             THEN Finish(Raised("HTTPError", "", resp.status))
             ELSE IF is_json(resp.content_type)
             THEN IF resp.records = <<>>
                  THEN Finish(Raised("ValueError", "No rainfall data returned", 0))
                  ELSE Finish(normalise(resp.records, resp.columns, resp.unparsed))
             ELSE IF resp.content_type = "text/csv"
             THEN Finish(normalise(resp.records, resp.columns, resp.unparsed))
             ELSE Finish(Raised("ValueError", "Unsupported response format", 0))
    /\ UNCHANGED <<args, segments, daily, reported, probed,
                   cache, earliest, failed, located, exit_code, out_file, heard, other, gui, ttl>>

Next == Call \/ PrimaryPage \/ Fallback \/ Generic

Spec == Init /\ [][Next]_vars

---------------------------------------------------------------------------
(* has_data_in_range *)

\* The calls of has_data_in_range followed; dataset and datatype are
\* strings there.
ProbeArgs ==
    [url : {NOAA_URL}, station : Stations,
     start : DateStrings, end : DateStrings,
     dataset : {"GHCND"}, datatype : {"PRCP"}, chunk_days : {None}]

\* What the CDO API may answer to the probe (limit 1): a failure, an HTTP
\* error, or a JSON object with at most one result.
ProbeResponses ==
    {Failure("cdo", o, 0) : o \in TransportErrors}
        \cup {Failure("cdo", "response", s) : s \in ErrorStatuses}
        \cup {[Failure("cdo", "response", 200) EXCEPT
                  !.content_type = "application/json", !.records = r] :
                r \in SeqsUpTo(Records, 1)}

\* Lines 914-923: the request of the probe.
probe_request(a) ==
    [service |-> "cdo", stationid |-> stationid_local_of(a.station, a.dataset),
     startdate |-> a.start, enddate |-> a.end, offset |-> 0]

\* has_data_in_range returns the boolean b.
ReturnedValue(b) == Returned(<<b>>)

\* A variant of fallback_verdict that takes every frame for data.
fallback_verdict_any(outcome) == outcome.kind = "ok"

\* Lines 931-943: `return not df.empty`, and False on any exception.
fallback_verdict(outcome) == outcome.kind = "ok" /\ outcome.series # <<>>

\* has_data_in_range is called.
CallProbe ==
    /\ pc = "idle"
    /\ \E a \in ProbeArgs : args' = a
    /\ pc' = "probe"
    /\ UNCHANGED <<current_start, current_end, seg_start, seg_end, offset_local,
                   collected, total_count_local, all_frames, result,
                   log, lastResp, segments, served, daily, reported, probed,
                   cache, earliest, failed, located, exit_code, out_file, heard, other, gui, ttl>>

\* The probe answered with `resp` (lines 924-929, 944-945).
probe_answered(resp) ==
    /\ log' = Append(log, probe_request(args))
    /\ lastResp' = resp
    /\ probed' = resp
    /\ served' = served + Len(resp.records)
    /\ IF resp.outcome \in TransportErrors \/ resp.status # 200
       THEN Finish(ReturnedValue(FALSE))
       ELSE IF resp.records # <<>>
       THEN Finish(ReturnedValue(TRUE))
       ELSE /\ pc' = "probe_fallback"
            /\ UNCHANGED <<current_start, current_end, seg_start, seg_end,
                           offset_local, collected, total_count_local,
                           all_frames, result>>
    /\ UNCHANGED <<args, segments, daily, reported, cache, earliest, failed,
                   located, exit_code, out_file>>

\* The probe and its answer.
Probe ==
    /\ pc = "probe"
    /\ \E resp \in ProbeResponses : probe_answered(resp)
    /\ UNCHANGED <<heard, other, gui, ttl>>

\* The fallback request of has_data_in_range answered with `resp` (lines
\* 931-943).
probe_fallback_answered(resp) ==
    /\ log' = Append(log, fallback_request(args))
    /\ lastResp' = resp
    /\ served' = served + Len(resp.records)
    /\ Finish(ReturnedValue(
           fallback_verdict(fetch_rainfall_ads_fallback(args, resp))))
    /\ UNCHANGED <<args, segments, daily, reported, probed,
                   cache, earliest, failed, located, exit_code, out_file>>

\* The fallback request of has_data_in_range and its answer.
ProbeFallback ==
    /\ pc = "probe_fallback"
    /\ \E resp \in FallbackResponses(MaxRecords - served) :
          probe_fallback_answered(resp)
    /\ UNCHANGED <<heard, other, gui, ttl>>

ProbeNext == CallProbe \/ Probe \/ ProbeFallback

ProbeSpec == Init /\ [][ProbeNext]_vars

---------------------------------------------------------------------------
(* The station-metadata reads *)

MetaOps ==
    {"search_stations", "find_stations_by_city", "available_datasets",
     "available_datatypes", "station_date_range", "station_period_of_record"}

\* The key under which an operation caches its list, None if it has none.
cache_key_of(a) ==
    CASE a.op = "find_stations_by_city" ->
            Some(<<"station_search", a.buffer, a.limit>>)
      [] a.op = "available_datasets" -> Some(<<"datasets">>)
      [] a.op = "available_datatypes" -> Some(<<"datatypes">>)
      [] OTHER -> None

\* The calls of the metadata reads with their arguments.
MetaCalls ==
    {[op |-> "find_stations_by_city", buffer |-> c.buffer, limit |-> c.limit] :
        c \in FindCalls}
      \cup {[op |-> o, buffer |-> 0, limit |-> 0] :
               o \in MetaOps \ {"find_stations_by_city"}}

\* What the geocoder lists first: a point (in quarter degrees), or an
\* entry whose coordinates are missing or do not parse.
GeoPoints ==
    {[lat |-> 2, lon |-> -3, parses |-> TRUE],
     [lat |-> -1, lon |-> 5, parses |-> TRUE],
     [lat |-> 0, lon |-> 0, parses |-> FALSE]}

\* An extent with latitude and longitude exchanged.
extent_swapped(lat, lon, buffer) ==
    <<lat - buffer, lon - buffer, lat + buffer, lon + buffer>>

\* extent = f"{lon - buffer},{lat - buffer},{lon + buffer},{lat + buffer}"
extent_of(lat, lon, buffer) ==
    <<lon - buffer, lat - buffer, lon + buffer, lat + buffer>>

\* The extent parameter of a request: of the station query only.
NoExtent == <<>>

\* `isinstance(cached, list)`, and for the datasets and datatypes a list
\* with a usable entry: the cached list is returned without a request.
cache_hit(op, cached) ==
    /\ cached # None
    /\ op = "find_stations_by_city" \/ cached[1] # <<>>

\* An item of a metadata answer, by the date text it carries.
MetaDates == {IsoDate(1), [form |-> "datetime", day |-> 1]}

\* The endpoint the request number `step` of an operation goes to.
service_of(op, step) ==
    CASE op = "find_stations_by_city" /\ step = 1 -> "geocode"
      [] op = "available_datasets" -> "datasets"
      [] op = "available_datatypes" -> "datatypes"
      [] op = "station_date_range" -> "cdo"
      [] OTHER -> "stations"

\* What an endpoint may answer: a failure, an HTTP error, or a 200 with a
\* list.  The geocoder lists a point, or an entry without coordinates.
MetaAnswers(op, step) ==
    LET service == service_of(op, step)
    IN  {Failure(service, o, 0) : o \in TransportErrors}
            \cup {Failure(service, "response", st) : st \in ErrorStatuses}
            \cup {[Failure(service, "response", 200) EXCEPT
                      !.content_type = "application/json", !.records = r] :
                    r \in CASE service = "geocode" ->
                                  {<<>>} \cup {<<p>> : p \in GeoPoints}
                             [] op = "find_stations_by_city" ->
                                  SeqsUpTo({IsoDate(1)}, MaxItems)
                             [] OTHER -> SeqsUpTo(MetaDates, MaxItems)}

\* requests.get raised, or raise_for_status did.
is_failure(resp) == resp.outcome \in TransportErrors \/ resp.status # 200

\* The exception of a failed request.
exception_of(resp) ==
    IF resp.outcome \in TransportErrors
    THEN Raised(resp.outcome, "", 0)
    ELSE Raised("HTTPError", "", resp.status)

\* A variant of swallowed for operations without any try/except.
swallowed_never(op, step) == FALSE

\* The request number `step` of the operation stands inside a try/except
\* that catches its failure: the geocoding request of find_stations_by_city
\* (538-542), the queries of station_date_range (743-753) and the request
\* of station_period_of_record (805-816).
swallowed(op, step) ==
    \/ op = "find_stations_by_city" /\ step = 1
    \/ op \in {"station_date_range", "station_period_of_record"}

\* The dates of the items, normalised.
normalised_items(items) ==
    [i \in 1..Len(items) |-> normalise_iso_date(items[i])]

\* The date of the first result of an answer, None after a failure or
\* without results.
first_date(resp) ==
    IF is_failure(resp) \/ resp.records = <<>> THEN None
    ELSE normalise_iso_date(resp.records[1])

\* _cache_set(value, *cache_key)
cache_set(key, value) == cache' = [cache EXCEPT ![key] = Some(value)]

\* A metadata read is called.  A cached list that has not expired is
\* returned at once; an expired entry is removed by _cache_get.
CallMeta ==
    /\ pc = "idle"
    /\ \E call \in MetaCalls :
          LET op == call.op
              key == cache_key_of(call)
              cached == IF key = None THEN None ELSE cache[key[1]]
          IN  /\ args' = call
              /\ \/ /\ cache_hit(op, cached)
                    /\ Finish(Returned(cached[1]))
                    /\ UNCHANGED cache
                 \/ /\ cached # None
                    /\ cache' = [cache EXCEPT ![key[1]] = None]
                    /\ pc' = "meta"
                    /\ UNCHANGED <<current_start, current_end, seg_start, seg_end,
                                   offset_local, collected, total_count_local,
                                   all_frames, result>>
                 \/ /\ ~ cache_hit(op, cached)
                    /\ pc' = "meta"
                    /\ UNCHANGED <<current_start, current_end, seg_start, seg_end,
                                   offset_local, collected, total_count_local,
                                   all_frames, result, cache>>
    /\ UNCHANGED <<log, lastResp, segments, served, daily, reported, probed,
                   earliest, failed, located, exit_code, out_file, heard, other, gui, ttl>>

\* One request of a metadata read and its answer, then the code up to the
\* next request or the return.
MetaRequest ==
    /\ pc = "meta"
    /\ LET op == args.op
           step == Len(log) + 1
           key == cache_key_of(args)
           extent == IF op = "find_stations_by_city" /\ step = 2
                     THEN extent_of(located.lat, located.lon, args.buffer)
                     ELSE NoExtent
           goes_on ==
               /\ pc' = "meta"
               /\ UNCHANGED <<current_start, current_end, seg_start, seg_end,
                              offset_local, collected, total_count_local,
                              all_frames, result>>
       IN  \E resp \in MetaAnswers(op, step) :
              /\ log' = Append(log, [service |-> service_of(op, step),
                                     step |-> step, extent |-> extent])
              /\ lastResp' = resp
              /\ failed' = IF is_failure(resp) THEN failed \cup {step} ELSE failed
              /\ IF is_failure(resp) /\ ~ swallowed(op, step)
                 THEN /\ Finish(exception_of(resp))
                      /\ UNCHANGED <<cache, earliest, located>>
                 ELSE CASE op = "search_stations" ->
                             /\ Finish(Returned(resp.records))
                             /\ UNCHANGED <<cache, earliest, located>>
                        [] op = "find_stations_by_city" /\ step = 1 ->
                             /\ IF \/ is_failure(resp)
                                   \/ resp.records = <<>>
                                   \/ ~ resp.records[1].parses
                                THEN Finish(Returned(<<>>)) /\ UNCHANGED located
                                ELSE goes_on /\ located' = resp.records[1]
                             /\ UNCHANGED <<cache, earliest>>
                        [] op = "find_stations_by_city" /\ step = 2 ->
                             /\ cache_set(key[1], normalised_items(resp.records))
                             /\ Finish(Returned(normalised_items(resp.records)))
                             /\ UNCHANGED <<earliest, located>>
                        [] op = "available_datasets" ->
                             /\ cache_set(key[1], normalised_items(resp.records))
                             /\ Finish(Returned(normalised_items(resp.records)))
                             /\ UNCHANGED <<earliest, located>>
                        [] op = "available_datatypes" ->
                             /\ cache_set(key[1], resp.records)
                             /\ Finish(Returned(resp.records))
                             /\ UNCHANGED <<earliest, located>>
                        [] op = "station_date_range" /\ step = 1 ->
                             /\ earliest' = first_date(resp)
                             /\ goes_on
                             /\ UNCHANGED <<cache, located>>
                        [] op = "station_date_range" /\ step = 2 ->
                             /\ Finish(Returned(<<earliest, first_date(resp)>>))
                             /\ UNCHANGED <<cache, earliest, located>>
                        [] op = "station_period_of_record" ->
                             /\ Finish(Returned(<<first_date(resp), first_date(resp)>>))
                             /\ UNCHANGED <<cache, earliest, located>>
    /\ UNCHANGED <<args, segments, served, daily, reported, probed,
                   exit_code, out_file, heard, other, gui, ttl>>

\* The caller has its answer; another read may be called.
MetaReturn ==
    /\ pc = "done"
    /\ pc' = "idle"
    /\ result' = Pending
    /\ log' = <<>>
    /\ lastResp' = NoAnswer
    /\ earliest' = None
    /\ failed' = {}
    /\ located' = NoPoint
    /\ UNCHANGED <<args, current_start, current_end, seg_start, seg_end,
                   offset_local, collected, total_count_local, all_frames,
                   segments, served, daily, reported, probed, cache,
                   exit_code, out_file, heard, other, gui, ttl>>

MetaNext == CallMeta \/ MetaRequest \/ MetaReturn

MetaSpec == Init /\ [][MetaNext]_vars

---------------------------------------------------------------------------
(* Vocabulary of the properties *)

Done == pc = "done"
PrimaryMode == args.url = NOAA_URL
Chunked == PrimaryMode /\ ~ missing_identifiers(args) /\ Truthy(args.chunk_days)

\* The call is over and issues no further request.
Over == Done /\ ~ ENABLED Next

NoDataError == Raised("ValueError", "No rainfall data returned", 0)

RequestsTo(service) == {i \in 1..Len(log) : log[i].service = service}

Ascending(series) ==
    \A i, j \in 1..Len(series) : i < j => series[i].Datetime <= series[j].Datetime

Occurrences(x, seq) == Cardinality({i \in 1..Len(seq) : seq[i] = x})

\* The two sequences hold the same elements the same number of times.
SameRows(s, t) ==
    /\ Len(s) = Len(t)
    /\ \A i \in 1..Len(s) : Occurrences(s[i], s) = Occurrences(s[i], t)

UniqueTimestamps(series) ==
    \A i, j \in 1..Len(series) : series[i].Datetime = series[j].Datetime => i = j

\* The last answer came from the given service as an HTTP response.
Answered(service) == lastResp.service = service /\ lastResp.outcome = "response"

\* The ADS answer holds records with a date column and a rainfall column
\* the fallback knows, and numeric values.
ValidAdsRecords ==
    /\ Answered("ads") /\ lastResp.status = 200
    /\ lastResp.columns \cap {"DATE", "date", "Date"} # {}
    /\ lastResp.columns \cap
          ({args.datatype, upper(args.datatype), lower(args.datatype),
            "PRCP", "prcp", "PRCP_MM", "PRCP_IN", "PRECIP", "precipitation",
            "value"} \ {NoneStr}) # {}
    /\ \A i \in 1..Len(lastResp.records) : lastResp.records[i].value \in NumericTexts

\* The fallback raised: a transport error, an HTTP error other than
\* 400/404, or records without a date or a rainfall column.
FallbackRaised ==
    /\ lastResp.service = "ads"
    /\ \/ lastResp.outcome \in TransportErrors
       \/ Answered("ads") /\ lastResp.status \notin {200, 400, 404}
       \/ /\ Answered("ads") /\ lastResp.status = 200
          /\ lastResp.records # <<>>
          /\ ~ ValidAdsRecords

\* No finished primary segment produced a record.
NoSegmentProduced == \A i \in 1..Len(segments) : segments[i].rows = 0

---------------------------------------------------------------------------
(* Properties *)

\* C1: in primary-API mode, when every primary segment ended in HTTP
\* 400/404 or without records and the fallback answers N >= 1 valid
\* records, the call returns exactly those N points, ascending by timestamp,
\* and raises nothing.
C1_FallbackSeriesReturned ==
    (/\ Done /\ PrimaryMode /\ NoSegmentProduced
     /\ ValidAdsRecords /\ Len(lastResp.records) >= 1)
        => /\ result.kind = "ok"
           /\ Len(result.series) = Len(lastResp.records)
           /\ SameRows(result.series, Rows(lastResp.records))
           /\ Ascending(result.series)

\* C1 witness: a segment answered 404, then the fallback sent two valid
\* records, the later day first, and the call returned a series.
C1_Witness ==
    /\ Done /\ PrimaryMode /\ result.kind = "ok" /\ ValidAdsRecords
    /\ \E i \in 1..Len(segments) : segments[i].how = "no coverage"
    /\ Len(lastResp.records) = 2
    /\ lastResp.records[1].date > lastResp.records[2].date

\* C2: in primary-API mode, when no primary segment yields a record and the
\* fallback yields none either, the call raises "No rainfall data returned";
\* and a call in this mode never returns an empty series.
C2_NoDataWhenBothEmpty ==
    /\ (/\ Done /\ PrimaryMode /\ NoSegmentProduced /\ Answered("ads")
        /\ \/ lastResp.status \in {400, 404}
           \/ lastResp.status = 200 /\ lastResp.records = <<>>)
          => result = NoDataError
    /\ (Done /\ PrimaryMode /\ result.kind = "ok") => result.series # <<>>

\* C2 witness: the primary API answered 200 with an empty page, the
\* fallback answered 200 with no record, and the call raised the no-data
\* error.
C2_Witness ==
    /\ Done /\ PrimaryMode /\ result = NoDataError
    /\ \E i \in 1..Len(segments) : segments[i].how = "empty page"
    /\ Answered("ads") /\ lastResp.status = 200 /\ lastResp.records = <<>>

\* C3: the fallback is requested at most once per call, after every primary
\* request, with the caller's own start and end, and only when no primary
\* segment produced a record; once a segment has produced records no
\* fallback request is made.
C3_FallbackOnceOverFullRange ==
    /\ Cardinality(RequestsTo("ads")) <= 1
    /\ \A i \in RequestsTo("ads") :
          /\ i = Len(log)
          /\ log[i].startdate = args.start
          /\ log[i].enddate = args.end
          /\ NoSegmentProduced
          /\ all_frames = <<>>
    /\ (\E k \in 1..Len(segments) : segments[k].rows > 0) => RequestsTo("ads") = {}

\* C3 witness: a chunked call asked two segments, none produced a record,
\* and the fallback was then asked for a range that is not the last
\* segment's.
C3_Witness ==
    /\ Chunked /\ Len(segments) >= 2
    /\ RequestsTo("ads") # {}
    /\ seg_start # args.start

C5_PrimaryHttpErrorIsFatal ==
    (Answered("cdo") /\ lastResp.status \notin {200, 400, 404})
        => /\ Over
           /\ result = Raised("HTTPError", "", lastResp.status)
           /\ result.series = <<>>
           /\ RequestsTo("ads") = {}
           /\ log[Len(log)].service = "cdo"

\* C5 witness: records had been collected from an earlier page or segment
\* when the primary API answered HTTP 500.
C5_Witness ==
    /\ Done /\ Answered("cdo") /\ lastResp.status = 500
    /\ (collected # <<>> \/ all_frames # <<>>)
    /\ result.kind = "error"

\* C6: a primary answer whose content type is not JSON ends the call with
\* "Unsupported response format", and the fallback is never asked.
C6_NonJsonIsFatal ==
    (/\ Answered("cdo") /\ lastResp.status = 200
     /\ lastResp.content_type # "application/json")
        => /\ Over
           /\ result = Raised("ValueError", "Unsupported response format", 0)
           /\ RequestsTo("ads") = {}

\* C6 witness: the primary API answered 200 text/html and the call raised.
C6_Witness ==
    /\ Done /\ Answered("cdo") /\ lastResp.status = 200
    /\ lastResp.content_type = "text/html"
    /\ result.msg = "Unsupported response format"

\* C7: in primary-API mode a call without dataset or without datatype fails
\* with the validation error before any HTTP request is issued.
C7_ValidationBeforeRequests ==
    (PrimaryMode /\ (args.dataset = NoneStr \/ args.datatype = NoneStr))
        => /\ Over
           /\ result = Raised("ValueError",
                  "dataset and datatype must be provided for NOAA requests", 0)
           /\ log = <<>>

\* C7 witness: a call with a dataset but no datatype has raised.
C7_Witness ==
    /\ Done /\ PrimaryMode
    /\ args.dataset # NoneStr /\ args.datatype = NoneStr
    /\ result.kind = "error" /\ log = <<>>

\* C8: every primary request carries a dataset-qualified station id (the
\* station itself when it holds a ":", else dataset ":" station), and every
\* fallback request carries the raw id, the station without its prefix up
\* to the first ":".
C8_StationIds ==
    /\ \A i \in RequestsTo("cdo") :
          /\ HasColon(log[i].stationid)
          /\ HasColon(args.station) => log[i].stationid = args.station
          /\ ~ HasColon(args.station)
                => log[i].stationid = <<args.dataset, ":">> \o args.station
    /\ \A i \in RequestsTo("ads") :
          \/ ~ HasColon(args.station) /\ log[i].stationid = args.station
          \/ \E k \in 1..Len(args.station) :
                /\ ~ HasColon(SubSeq(args.station, 1, k - 1))
                /\ args.station = SubSeq(args.station, 1, k - 1) \o <<":">>
                                      \o log[i].stationid

\* C8 witness: a call with a prefixed station has asked the primary API and
\* then the fallback.
C8_Witness ==
    /\ HasColon(args.station)
    /\ RequestsTo("cdo") # {} /\ RequestsTo("ads") # {}

\* C9: every series the call returns, on whichever path, is ascending by
\* timestamp.
C9_ReturnedSeriesSorted ==
    result.kind = "ok" => Ascending(result.series)

\* C9 witness: a chunked call returned a series of records the primary API
\* had sent out of order.
C9_Witness ==
    /\ Done /\ Chunked /\ result.kind = "ok"
    /\ ~ Ascending(Rows(concat(all_frames)))

\* C10 as stated: a chunked call that asked at least one segment and
\* returns, the primary API having sent for every segment at most one
\* record per day and only days of the segment, returns no timestamp twice.
C10_AsStated ==
    (Done /\ Chunked /\ segments # <<>> /\ result.kind = "ok" /\ daily)
        => UniqueTimestamps(result.series)

\* C10 as amended: the same, provided the fallback, when it is the source
\* of the series, sent at most one record per day as well.
C10_UniqueTimestamps ==
    (/\ Done /\ Chunked /\ result.kind = "ok" /\ daily
     /\ lastResp.service = "ads" => NoDuplicateDays(lastResp.records))
        => UniqueTimestamps(result.series)

\* C10 witness: a chunked call returned the records of two segments.
C10_Witness ==
    /\ Done /\ Chunked /\ result.kind = "ok" /\ daily
    /\ Len(all_frames) >= 2

---------------------------------------------------------------------------
(* Records and series of the primary path *)

\* The series the call returned was built from the primary frames.
PrimarySeries ==
    Done /\ PrimaryMode /\ result.kind = "ok" /\ RequestsTo("ads") = {}

\* One point per record: the record's date and its value as sent.
Points(records) ==
    [i \in 1..Len(records) |->
        [Datetime |-> records[i].date, Rainfall |-> records[i].value]]

\* Every record the pages of the finished segments held.
RECURSIVE ReceivedRecords(_)
ReceivedRecords(segs) ==
    IF segs = <<>> THEN <<>> ELSE Head(segs).got \o ReceivedRecords(Tail(segs))

\* The records of the segments that no HTTP 400/404 ended.
RECURSIVE KeptRecords(_)
KeptRecords(segs) ==
    IF segs = <<>> THEN <<>>
    ELSE (IF Head(segs).how = "no coverage" THEN <<>> ELSE Head(segs).got)
             \o KeptRecords(Tail(segs))

\* C11 as stated: a series returned on the primary path holds exactly one
\* point per record received over all pages of all segments, each with the
\* record's value unchanged.
C11_AsStated ==
    PrimarySeries => SameRows(result.series, Points(ReceivedRecords(segments)))

\* C11 as amended: a series returned on the primary path holds exactly one
\* point per record received over all pages of the segments that no HTTP
\* 400/404 ended, each with the record's value unchanged.
C11_OnePointPerKeptRecord ==
    PrimarySeries => SameRows(result.series, Points(KeptRecords(segments)))

\* C11 witness: a series was returned on the primary path after a segment
\* of several pages, a 400/404 having ended one of them with records in hand.
C11_Witness ==
    /\ PrimarySeries /\ result.series # <<>>
    /\ \E k \in 1..Len(segments) :
          segments[k].how = "no coverage" /\ segments[k].got # <<>>

---------------------------------------------------------------------------
(* The segments of a chunked call *)

\* A call of the primary API with chunk_days >= 1 and two dates that parse,
\* the start not after the end.
ChunkedRange ==
    /\ pc # "idle" /\ PrimaryMode
    /\ args.dataset # NoneStr /\ args.datatype # NoneStr
    /\ args.chunk_days # None /\ args.chunk_days[1] >= 1
    /\ coerce_date(args.start) # None /\ coerce_date(args.end) # None
    /\ coerce_date(args.start)[1] <= coerce_date(args.end)[1]

\* The first page request of every segment asked so far, in order.
SegmentRequests ==
    SelectSeq(log, LAMBDA q : q.service = "cdo" /\ q.offset = 1)

\* The number of days of the segment a request asks for, both ends counted.
SpanOf(q) == q.enddate.day - q.startdate.day + 1

\* A transport error, an HTTP error other than 400/404 or a non-JSON answer
\* ended the call in the middle of a segment.
PrimaryAborted ==
    /\ lastResp.service = "cdo"
    /\ \/ lastResp.outcome \in TransportErrors
       \/ lastResp.status \notin {200, 400, 404}
       \/ lastResp.status = 200 /\ lastResp.content_type # "application/json"

\* The segment loop has run to its end.
LoopOver == pc \in {"fallback", "done"} /\ ~ PrimaryAborted

\* C12: the segments requested partition [start, end]: the first starts at
\* start, each next one starts the day after the previous one ends, and
\* once the loop is over the last one ends at end.
C12_SegmentsPartitionRange ==
    ChunkedRange =>
        LET S == SegmentRequests
        IN  /\ S # <<>> => S[1].startdate = IsoDate(coerce_date(args.start)[1])
            /\ \A i \in 1..(Len(S) - 1) :
                  S[i + 1].startdate = IsoDate(S[i].enddate.day + 1)
            /\ LoopOver =>
                  /\ S # <<>>
                  /\ S[Len(S)].enddate = IsoDate(coerce_date(args.end)[1])

\* C12 witness: the loop of a chunked call is over after two segments.
C12_Witness ==
    ChunkedRange /\ LoopOver /\ Len(SegmentRequests) >= 2

\* C13: every segment requested ends no earlier than it starts and spans at
\* most chunk_days days; every segment but the last, and every segment that
\* ends before end, spans exactly chunk_days days.
C13_SegmentsSpanChunkDays ==
    ChunkedRange =>
        LET S == SegmentRequests
        IN  \A i \in 1..Len(S) :
               /\ S[i].enddate.day >= S[i].startdate.day
               /\ SpanOf(S[i]) <= args.chunk_days[1]
               /\ (i < Len(S) \/ S[i].enddate.day < coerce_date(args.end)[1])
                     => SpanOf(S[i]) = args.chunk_days[1]

\* C13 witness: the loop of a chunked call is over and its last segment is
\* shorter than chunk_days.
C13_Witness ==
    /\ ChunkedRange /\ LoopOver /\ SegmentRequests # <<>>
    /\ SpanOf(SegmentRequests[Len(SegmentRequests)]) < args.chunk_days[1]

---------------------------------------------------------------------------
(* Chunking skipped, empty ranges, pagination, the generic service *)

\* A call of the primary API with its identifiers, past its validation.
PrimaryCall ==
    /\ pc # "idle" /\ PrimaryMode
    /\ args.dataset # NoneStr /\ args.datatype # NoneStr

\* chunk_days is neither absent nor zero.
ChunkingRequested == args.chunk_days # None /\ args.chunk_days[1] # 0

BothDatesParse ==
    coerce_date(args.start) # None /\ coerce_date(args.end) # None

\* C14 as stated: when chunk_days is absent or zero, or is set while start
\* or end parses as no date, the call asks the primary API for the single
\* segment [start, end] as given: once its first request is answered, that
\* request went to the primary API, and every primary request carries the
\* original start and end.
C14_AsStated ==
    (/\ PrimaryCall /\ pc # "page"
     /\ ~ ChunkingRequested \/ ~ BothDatesParse)
        => /\ log # <<>> /\ log[1].service = "cdo"
           /\ \A i \in RequestsTo("cdo") :
                 log[i].startdate = args.start /\ log[i].enddate = args.end

C16_AsStated ==
    (/\ Done /\ BothDatesParse
     /\ coerce_date(args.start)[1] > coerce_date(args.end)[1]
     /\ lastResp.outcome = "response" /\ lastResp.status = 200)
        => result.kind = "error" /\ result.exc = "ValueError"

CeilDiv(a, b) == (a + b - 1) \div b

\* The pages of the segment under way read so far, each of them full.
PagesRead == (offset_local - 1) \div limit_local

\* C17: a further page of a segment is requested only after full pages, so
\* a first page shorter than the limit ends the segment after one request;
\* and while every page has reported the same total T, the request about
\* to be issued is at most number ceil(T / limit) + 1.
C17_PaginationBounded ==
    (pc = "page" /\ offset_local > 1)
        => /\ Len(collected) = PagesRead * limit_local
           /\ \A T \in 0..MaxCount :
                 reported = {Some(T)}
                    => PagesRead + 1 <= CeilDiv(T, limit_local) + 1

\* C17 witness: a second page is about to be requested, the first having
\* reported a total.
C17_Witness ==
    /\ pc = "page" /\ offset_local > 1
    /\ \E T \in 0..MaxCount : reported = {Some(T)}

---------------------------------------------------------------------------
(* has_data_in_range *)

\* The probe failed: no answer, or an HTTP error.
ProbeFailed == probed.outcome \in TransportErrors \/ probed.status # 200

\* The ADS answered with a frame that is not empty.
FallbackHasData ==
    ValidAdsRecords /\ lastResp.records # <<>>

---------------------------------------------------------------------------
(* The station-metadata reads *)

\* A metadata read is over and one of its requests ended in a transport or
\* an HTTP error.
ReadFailed == Done /\ failed # {}

\* The exception raised is the one of the last request.
RaisedLastFailure ==
    /\ result.kind = "error"
    /\ \/ lastResp.outcome \in TransportErrors /\ result.exc = lastResp.outcome
       \/ /\ lastResp.outcome = "response" /\ result.exc = "HTTPError"
          /\ result.status = lastResp.status

\* C20 as stated: each of the six metadata reads turns a transport or HTTP
\* failure of any of its requests into an empty or None result and does not
\* raise.
C20_AsStated ==
    ReadFailed =>
        /\ result.kind = "ok"
        /\ IF args.op \in {"station_date_range", "station_period_of_record"}
           THEN \A k \in failed : result.series[k] = None
           ELSE result.series = <<>>

\* C20 as amended: station_date_range and station_period_of_record turn a
\* failure into None, and find_stations_by_city turns a failure of its
\* geocoding request into an empty list, without raising; search_stations,
\* available_datasets, available_datatypes and the station query of
\* find_stations_by_city raise the failure.
C20_FailuresOfMetadataReads ==
    ReadFailed =>
        CASE args.op = "station_date_range" ->
                 /\ result.kind = "ok"
                 /\ \A k \in failed : result.series[k] = None
          [] args.op = "station_period_of_record" ->
                 result = Returned(<<None, None>>)
          [] args.op = "find_stations_by_city" ->
                 IF 1 \in failed
                 THEN result = Returned(<<>>) /\ Len(log) = 1
                 ELSE RaisedLastFailure
          [] OTHER -> RaisedLastFailure

\* C20 witness: the first query of station_date_range failed, the second
\* one answered with a date, and the read returned (None, date).
C20_Witness ==
    /\ ReadFailed /\ args.op = "station_date_range"
    /\ failed = {1}
    /\ result.kind = "ok" /\ result.series[1] = None /\ result.series[2] # None

---------------------------------------------------------------------------
(* The station search by city *)

\* A call of find_stations_by_city is under way or has ended.
FindCall == pc \in {"meta", "done"} /\ args.op = "find_stations_by_city"

\* The requests of the call that went to the station endpoint.
StationQueries == {k \in 1..Len(log) : log[k].service = "stations"}

\* C21: for a city geocoded to (lat, lon) and a buffer b the station query
\* of find_stations_by_city sends the extent (lon-b, lat-b, lon+b, lat+b):
\* longitude in positions 1 and 3, latitude in positions 2 and 4.
C21_ExtentLonLatOrder ==
    FindCall =>
        \A k \in StationQueries :
            /\ Len(log[k].extent) = 4
            /\ log[k].extent[1] = located.lon - args.buffer
            /\ log[k].extent[2] = located.lat - args.buffer
            /\ log[k].extent[3] = located.lon + args.buffer
            /\ log[k].extent[4] = located.lat + args.buffer

\* C21 witness: a city was geocoded to a point whose latitude differs from
\* its longitude, and the station query was sent.
C21_Witness ==
    /\ FindCall /\ Done
    /\ StationQueries = {2}
    /\ located.parses /\ located.lat # located.lon
    /\ args.buffer = 4

\* C22 as stated: find_stations_by_city returns at most `limit` entries,
\* from the station endpoint's response or from the cache, whatever number
\* of results the server sends.
C22_AsStated ==
    (FindCall /\ Done /\ result.kind = "ok") =>
        Len(result.series) <= args.limit

---------------------------------------------------------------------------
(* The requests of one fetch: no retry *)

\* What identifies a primary request: its segment and its offset.
PageKey(q) == <<q.startdate, q.enddate, q.offset>>

\* The answer just received is a failure: nothing came back, or an HTTP
\* error status did.
LastFailed ==
    lastResp # NoAnswer
        /\ (lastResp.outcome \in TransportErrors \/ lastResp.status # 200)

\* C23: within one fetch no two primary requests have the same segment
\* start, segment end and offset, and the request about to be issued was not
\* issued before; a transport error or an HTTP error other than 400/404 of a
\* primary request ends the fetch with no further request; the fallback is
\* asked at most once, as the last request, and whatever it answers ends the
\* fetch.
C23_NoRetry ==
    PrimaryCall =>
        /\ \A i, j \in RequestsTo("cdo") :
              PageKey(log[i]) = PageKey(log[j]) => i = j
        /\ pc = "page" =>
              \A i \in RequestsTo("cdo") :
                  PageKey(log[i]) # PageKey(primary_request(args))
        /\ RequestsTo("ads") \subseteq {Len(log)}
        /\ RequestsTo("ads") # {} => Done
        /\ (LastFailed /\ lastResp.service = "cdo"
                /\ ~ (lastResp.outcome = "response" /\ lastResp.status \in {400, 404}))
              => Done /\ result.kind = "error"

\* C23 witness: the first segment of a chunked fetch was answered with
\* HTTP 400/404, the next segment was requested, and the fallback failed.
C23_Witness ==
    /\ PrimaryCall /\ Done
    /\ Len(segments) = 2 /\ segments[1].how = "no coverage"
    /\ RequestsTo("ads") = {3}
    /\ LastFailed

---------------------------------------------------------------------------
(* The fallback client called on its own *)

\* The calls of _fetch_rainfall_ads_fallback followed.
FallbackArgs == {a \in Args : a.url = NOAA_URL /\ a.chunk_days = None}

\* _fetch_rainfall_ads_fallback is called.
CallFallback ==
    /\ pc = "idle"
    /\ \E a \in FallbackArgs : args' = a
    /\ pc' = "ads"
    /\ UNCHANGED <<current_start, current_end, seg_start, seg_end,
                   offset_local, collected, total_count_local, all_frames,
                   result, log, lastResp, segments, served, daily, reported,
                   probed, cache, earliest, failed, located, exit_code, out_file, heard, other, gui, ttl>>

\* Its single request and the answer, then lines 1016-1070.
FallbackAnswer ==
    /\ pc = "ads"
    /\ \E resp \in FallbackResponses(MaxRecords) :
          /\ log' = Append(log, fallback_request(args))
          /\ lastResp' = resp
          /\ served' = served + Len(resp.records)
          /\ Finish(fetch_rainfall_ads_fallback(args, resp))
    /\ UNCHANGED <<args, segments, daily, reported, probed,
                   cache, earliest, failed, located, exit_code, out_file, heard, other, gui, ttl>>

FallbackNext == CallFallback \/ FallbackAnswer

FallbackSpec == Init /\ [][FallbackNext]_vars

\* The fallback service answered the client's request with an HTTP error
\* status.
FallbackHttpError ==
    /\ Done /\ lastResp.service = "ads"
    /\ lastResp.outcome = "response" /\ lastResp.status # 200

\* C24: the fallback client returns an empty series, without raising, when
\* the service answers HTTP 400 or 404, and raises HTTPError with the status
\* for every other HTTP error status.
C24_FallbackHttpErrors ==
    FallbackHttpError =>
        IF lastResp.status \in {400, 404}
        THEN result.kind = "ok" /\ result.series = <<>>
        ELSE /\ result.kind = "error" /\ result.exc = "HTTPError"
             /\ result.status = lastResp.status

\* C24 witness: the service answered 400 to a call with a prefixed station
\* id and the client returned the empty series.
C24_Witness ==
    /\ FallbackHttpError /\ lastResp.status = 400
    /\ result = Returned(<<>>)
    /\ Len(args.station) > 1

---------------------------------------------------------------------------
(* The command-line entry point *)

\* str.lower, one character at a time.
lower_char(c) ==
    CASE c = "A" -> "a" [] c = "B" -> "b" [] c = "C" -> "c" [] c = "D" -> "d"
      [] c = "E" -> "e" [] c = "F" -> "f" [] c = "G" -> "g" [] c = "H" -> "h"
      [] c = "I" -> "i" [] c = "J" -> "j" [] c = "K" -> "k" [] c = "L" -> "l"
      [] c = "M" -> "m" [] c = "N" -> "n" [] c = "O" -> "o" [] c = "P" -> "p"
      [] c = "Q" -> "q" [] c = "R" -> "r" [] c = "S" -> "s" [] c = "T" -> "t"
      [] c = "U" -> "u" [] c = "V" -> "v" [] c = "W" -> "w" [] c = "X" -> "x"
      [] c = "Y" -> "y" [] c = "Z" -> "z" [] OTHER -> c

RECURSIVE str_lower(_)
str_lower(s) ==
    IF Len(s) = 0 THEN ""
    ELSE lower_char(SubSeq(s, 1, 1)) \o str_lower(SubSeq(s, 2, Len(s)))

\* `needle in text`
contains(text, needle) ==
    \E i \in 1..(Len(text) - Len(needle) + 1) :
        SubSeq(text, i, i + Len(needle) - 1) = needle

\* _is_no_data_error: `"no rainfall data" in str(exc).lower()`
is_no_data_error(msg) == contains(str_lower(msg), "no rainfall data")

\* The exit status main gives a failed fetch (lines 1149-1170).
exit_status(res) ==
    IF res.exc = "ValueError" /\ is_no_data_error(res.msg) THEN 2 ELSE 1

\* The command lines followed: --dataset and --datatype at their defaults.
MainArgs ==
    [station : {<<"US1PAAL0001">>}, start : DateStrings,
     end : {IsoDate(d) : d \in Days} \cup {[form |-> "text", day |-> 0]},
     source : {"noaa", "other"}, chunk_days : {None, Some(1)}]

\* The arguments main passes to fetch_rainfall.
fetch_args(m, start, end) ==
    [url |-> IF m.source = "noaa" THEN NOAA_URL ELSE GENERIC_URL,
     station |-> m.station, start |-> start, end |-> end,
     dataset |-> "GHCND", datatype |-> "PRCP", chunk_days |-> m.chunk_days]

\* The mindate and maxdate texts of a dataset entry.
InfoDates == {IsoDate(d) : d \in Days} \cup {[form |-> "text", day |-> 0]}

\* What the datasets endpoint may answer to the clamp: a failure, an HTTP
\* error, a list without the dataset or a list with its entry.
DatasetAnswers ==
    {Failure("datasets", o, 0) : o \in TransportErrors}
        \cup {Failure("datasets", "response", st) : st \in ErrorStatuses}
        \cup {[Failure("datasets", "response", 200) EXCEPT
                  !.content_type = "application/json", !.records = r] :
                r \in {<<>>} \cup {<<[mindate |-> normalise_iso_date(lo),
                                      maxdate |-> normalise_iso_date(hi)]>> :
                                     lo \in InfoDates, hi \in InfoDates}}

\* Line 857: the start is after the end, both being dates.
empty_range(start, end) ==
    LET start_date == coerce_date(start)
        end_date == coerce_date(end)
    IN  start_date # None /\ end_date # None /\ start_date[1] > end_date[1]

\* _clamp_date_range_to_dataset from the list of datasets on (lines
\* 866-901): the new start and end, and whether a message is returned.
clamp_date_range(start, end, datasets) ==
    IF datasets = <<>>
    THEN [start |-> start, end |-> end, message |-> FALSE]
    ELSE LET ds_min == coerce_date(datasets[1].mindate)
             ds_max == coerce_date(datasets[1].maxdate)
             s0 == coerce_date(start)
             e0 == coerce_date(end)
             start_date == IF s0 # None /\ ds_min # None /\ s0[1] < ds_min[1]
                           THEN ds_min ELSE s0
             end_date == IF e0 # None /\ ds_max # None /\ e0[1] > ds_max[1]
                         THEN ds_max ELSE e0
         IN  IF start_date # None /\ end_date # None /\ start_date[1] > end_date[1]
             THEN [start |-> start, end |-> end, message |-> TRUE]
             ELSE [start |-> IF start_date # None THEN isoformat(start_date[1])
                             ELSE start,
                   end |-> IF end_date # None THEN isoformat(end_date[1]) ELSE end,
                   message |-> FALSE]

\* `raise SystemExit(code)` before fetch_rainfall has returned.
exit_early(code) ==
    /\ pc' = "exited"
    /\ exit_code' = Some(code)
    /\ UNCHANGED <<current_start, current_end, seg_start, seg_end,
                   offset_local, collected, total_count_local, all_frames,
                   result>>

\* main is started: lines 1072-1129, and for another source the call of
\* fetch_rainfall up to its first request.
MainCall ==
    /\ pc = "idle" /\ exit_code = None
    /\ \E m \in MainArgs :
          LET a == fetch_args(m, m.start, m.end)
          IN  /\ args' = a
              /\ IF a.url # NOAA_URL THEN enter(a) /\ UNCHANGED exit_code
                 ELSE IF empty_range(m.start, m.end) THEN exit_early(2)
                 ELSE /\ pc' = "clamp"
                      /\ UNCHANGED <<current_start, current_end, seg_start,
                                     seg_end, offset_local, collected,
                                     total_count_local, all_frames, result,
                                     exit_code>>
    /\ UNCHANGED <<log, lastResp, segments, served, daily, reported, probed,
                   cache, earliest, failed, located, out_file, heard, other, gui, ttl>>

\* The process reads the cache file an earlier run has saved (lines 60-76),
\* with the entry of the dataset in it.
CacheLoaded ==
    /\ pc = "clamp" /\ cache[<<"datasets">>] = None
    /\ cache_set(<<"datasets">>,
                 <<[mindate |-> IsoDate(1), maxdate |-> IsoDate(1)]>>)
    /\ UNCHANGED <<pc, args, current_start, current_end, seg_start, seg_end,
                   offset_local, collected, total_count_local, all_frames,
                   result, log, lastResp, segments, served, daily, reported,
                   probed, earliest, failed, located, exit_code, out_file,
                   heard, other, gui, ttl>>

\* _clamp_date_range_to_dataset with the list available_datasets returned,
\* an empty list standing for a RequestException; then main up to the first
\* request of fetch_rainfall.
clamped_with(datasets) ==
    LET clamped == clamp_date_range(args.start, args.end, datasets)
        a == [args EXCEPT !.start = clamped.start, !.end = clamped.end]
    IN  IF clamped.message
        THEN exit_early(2) /\ UNCHANGED args
        ELSE args' = a /\ enter(a) /\ UNCHANGED exit_code

\* available_datasets inside _clamp_date_range_to_dataset: the list the
\* cache holds, or else the request and its answer.
MainClamp ==
    /\ pc = "clamp"
    /\ IF cache_hit("available_datasets", cache[<<"datasets">>])
       THEN /\ clamped_with(cache[<<"datasets">>][1])
            /\ UNCHANGED <<log, lastResp, cache>>
       ELSE \E resp \in DatasetAnswers :
               /\ log' = Append(log,
                      [service |-> "datasets",
                       stationid |-> stationid_local_of(args.station, args.dataset),
                       startdate |-> args.start, enddate |-> args.end,
                       offset |-> 0])
               /\ lastResp' = resp
               /\ IF is_failure(resp) THEN UNCHANGED cache
                  ELSE cache_set(<<"datasets">>, resp.records)
               /\ clamped_with(IF is_failure(resp) THEN <<>> ELSE resp.records)
    /\ UNCHANGED <<segments, served, daily, reported, probed, earliest,
                   failed, located, out_file, heard, other, gui, ttl>>

\* fetch_rainfall has returned or raised: lines 1149-1190.
MainExit ==
    /\ pc = "done"
    /\ pc' = "exited"
    /\ IF result.kind = "error"
       THEN exit_code' = Some(exit_status(result)) /\ UNCHANGED out_file
       ELSE \E written \in BOOLEAN :
               /\ out_file' = written
               /\ exit_code' = IF written THEN Some(0) ELSE Some(1)
    /\ UNCHANGED <<args, current_start, current_end, seg_start, seg_end,
                   offset_local, collected, total_count_local, all_frames,
                   result, log, lastResp, segments, served, daily, reported,
                   probed, cache, earliest, failed, located, heard, other, gui, ttl>>

MainNext ==
    MainCall \/ CacheLoaded \/ MainClamp \/ PrimaryPage \/ Fallback \/ Generic \/ MainExit

MainSpec == Init /\ [][MainNext]_vars

\* The process has ended.
Exited == pc = "exited"

\* C25 as stated: a NoDataError from fetch, or a clamp result saying the
\* range has no data, ends the process with exit status 2 and no output
\* file; every other fetch failure (HTTP error, timeout, network error,
\* schema or format error) ends it with exit status 1 and no output file.
C25_AsStated ==
    Exited =>
        /\ (result = Pending \/ result = NoDataError)
              => exit_code = Some(2) /\ ~ out_file
        /\ (result.kind = "error" /\ result # NoDataError)
              => exit_code = Some(1) /\ ~ out_file

---------------------------------------------------------------------------
(* Two fetches at once *)

\* Two calls of fetch_rainfall run in two threads.  The locals of a call
\* are its own; the module's only mutable global is the metadata cache.
\* The variables hold the fetch that takes the next step and `other` the
\* fetch that waits; Switch hands over.  The fetch that leads is answered
\* freely, the one that follows is given the leader's arguments and, request
\* by request, the answers the leader got.  Meanwhile a third thread may
\* store a list in the cache.

\* The calls followed when two fetches run at once.
TwoArgs ==
    [url : {NOAA_URL}, station : {<<"US1PAAL0001">>},
     start : {IsoDate(1)}, end : {IsoDate(2)},
     dataset : {"GHCND"}, datatype : {"PRCP"}, chunk_days : {None, Some(1)}]

\* The locals and histories of the fetch that takes the next step.
Running ==
    [pc |-> pc, args |-> args, current_start |-> current_start,
     current_end |-> current_end, seg_start |-> seg_start, seg_end |-> seg_end,
     offset_local |-> offset_local, collected |-> collected,
     total_count_local |-> total_count_local, all_frames |-> all_frames,
     result |-> result, log |-> log, lastResp |-> lastResp,
     segments |-> segments, reported |-> reported, heard |-> heard,
     leads |-> ~ other.leads]

\* The records the servers may still send.
Room == IF served < MaxRecords THEN MaxRecords - served ELSE 0

\* The answers followed when two fetches run at once: a timeout, the
\* statuses 404 and 500, and the 200 answers whose records come by
\* ascending day, with no count or with the count of one full page.
TwoHeard(resp) ==
    /\ resp.outcome # "ConnectionError"
    /\ resp.status \in {0, 200, 404, 500}
    /\ resp.count \in {None, Some(limit_local)}
    /\ resp.columns \in {{}, {"DATE", "PRCP"}}
    /\ \A i, j \in 1..Len(resp.records) :
          i < j => resp.records[i].date < resp.records[j].date

\* The answers to the next request: any answer of the service for the fetch
\* that leads, the leader's answer to its request of the same number for
\* the fetch that follows.
TwoAnswers(service, any) ==
    IF other.leads
    THEN IF /\ Len(other.heard) > Len(heard)
            /\ other.heard[Len(heard) + 1].service = service
         THEN {other.heard[Len(heard) + 1]}
         ELSE {}
    ELSE any

\* fetch_rainfall is called, by the follower with the leader's arguments.
TwoCall ==
    /\ pc = "idle"
    /\ \E a \in IF ~ other.leads THEN TwoArgs
                ELSE IF other.pc # "idle" THEN {other.args} ELSE {} :
          /\ args' = a
          /\ enter(a)
    /\ UNCHANGED <<log, lastResp, segments, served, daily, reported, probed,
                   cache, earliest, failed, located, exit_code, out_file,
                   heard, other, gui, ttl>>

\* One page request of the fetch that runs, and its answer.
TwoPage ==
    /\ pc = "page"
    /\ Len(log) < MaxRequests
    /\ \E resp \in TwoAnswers("cdo", {r \in PrimaryResponses(Room) : TwoHeard(r)}) :
          /\ page_answered(resp)
          /\ heard' = Append(heard, resp)
    /\ UNCHANGED <<other, gui, ttl>>

\* The fallback request of the fetch that runs, and its answer.
TwoFallback ==
    /\ pc = "fallback"
    /\ \E resp \in TwoAnswers("ads", {r \in FallbackResponses(Room) : TwoHeard(r)}) :
          /\ fallback_answered(resp)
          /\ heard' = Append(heard, resp)
    /\ UNCHANGED <<other, gui, ttl>>

\* The other of the two calls takes the next step.
Switch ==
    /\ other' = Running
    /\ UNCHANGED <<gui, ttl>>
    /\ pc' = other.pc
    /\ args' = other.args
    /\ current_start' = other.current_start
    /\ current_end' = other.current_end
    /\ seg_start' = other.seg_start
    /\ seg_end' = other.seg_end
    /\ offset_local' = other.offset_local
    /\ collected' = other.collected
    /\ total_count_local' = other.total_count_local
    /\ all_frames' = other.all_frames
    /\ result' = other.result
    /\ log' = other.log
    /\ lastResp' = other.lastResp
    /\ segments' = other.segments
    /\ reported' = other.reported
    /\ heard' = other.heard
    /\ UNCHANGED <<served, daily, probed, cache, earliest, failed, located,
                   exit_code, out_file>>

\* A third thread ends available_datatypes and stores its list (line 655).
CacheWritten ==
    /\ cache[<<"datatypes">>] = None
    /\ cache_set(<<"datatypes">>, <<IsoDate(1)>>)
    /\ UNCHANGED <<pc, args, current_start, current_end, seg_start, seg_end,
                   offset_local, collected, total_count_local, all_frames,
                   result, log, lastResp, segments, served, daily, reported,
                   probed, earliest, failed, located, exit_code, out_file,
                   heard, other, gui, ttl>>

TwoNext == TwoCall \/ TwoPage \/ TwoFallback \/ Switch \/ CacheWritten

TwoSpec == Init /\ [][TwoNext]_vars

\* The fetch that leads and the fetch that follows.
Leader == IF other.leads THEN other ELSE Running
Follower == IF other.leads THEN Running ELSE other

\* The error is one of the normalisation: it depends on the column names
\* and the date texts of the records, which the answers heard do not hold.
SchemaError(res) ==
    /\ res.kind = "error" /\ res.exc = "ValueError"
    /\ res.msg # "No rainfall data returned"

\* The follower has been answered as the leader was, request by request,
\* and stands where the leader stands: same requests, same segments, same
\* result.
SameAsAlone ==
    (Follower.pc # "idle" /\ Follower.heard = Leader.heard)
        => /\ Follower.args = Leader.args
           /\ Follower.pc = Leader.pc
           /\ Follower.log = Leader.log
           /\ Follower.segments = Leader.segments
           /\ Follower.all_frames = Leader.all_frames
           /\ \/ Follower.result = Leader.result
              \/ SchemaError(Follower.result) \/ SchemaError(Leader.result)

\* The follower that has heard fewer answers than the leader has issued the
\* leader's requests so far and is about to issue the leader's next one.
FollowsTheLeader ==
    (Follower.pc # "idle" /\ Len(Follower.heard) < Len(Leader.heard))
        => /\ \A k \in 1..Len(Follower.log) : Follower.log[k] = Leader.log[k]
           /\ Follower.pc = (IF Leader.heard[Len(Follower.heard) + 1].service = "cdo"
                             THEN "page" ELSE "fallback")

\* A step of a fetch: it is called, or one of its requests is answered.
FetchStep == other' = other /\ (pc' # pc \/ log' # log)

---------------------------------------------------------------------------
(* The checks after a page *)

\* The last request was a page request answered with a JSON page.
PageReceived ==
    /\ log # <<>> /\ log[Len(log)].service = "cdo"
    /\ lastResp.outcome = "response" /\ lastResp.status = 200
    /\ lastResp.content_type = "application/json"

\* The page just received ended its segment.
SegmentJustEnded ==
    /\ PageReceived /\ segments # <<>>
    /\ segments[Len(segments)].start = log[Len(log)].startdate
    /\ segments[Len(segments)].end = log[Len(log)].enddate

\* The sequence ends with the records of the page.
EndsWith(records, page) ==
    /\ Len(page) <= Len(records)
    /\ SubSeq(records, Len(records) - Len(page) + 1, Len(records)) = page

\* C27: the records of a received page are appended before any check, so
\* the page that ends a segment is part of the segment's frame.  The checks
\* come in this order: an empty page stops the loop; else a page shorter
\* than the limit stops it; else a known total smaller than offset + limit
\* stops it; otherwise the next request has the offset raised by the limit.
C27_ChecksAfterAppend ==
    PrimaryCall =>
        /\ SegmentJustEnded =>
              LET s == segments[Len(segments)]
                  page == lastResp.records
                  offset == log[Len(log)].offset
              IN  /\ EndsWith(s.got, page) /\ s.rows = Len(s.got)
                  /\ page = <<>> => s.how = "empty page"
                  /\ (page # <<>> /\ Len(page) < limit_local)
                        => s.how = "short page"
                  /\ Len(page) = limit_local
                        => /\ s.how = "count reached"
                           /\ s.total # None
                           /\ offset + limit_local > s.total[1]
        /\ (PageReceived /\ ~ SegmentJustEnded /\ pc = "page")
              => /\ Len(lastResp.records) = limit_local
                 /\ EndsWith(collected, lastResp.records)
                 /\ total_count_local # None
                       => ~ (log[Len(log)].offset + limit_local
                                > total_count_local[1])
                 /\ offset_local = log[Len(log)].offset + limit_local
                 /\ seg_start = log[Len(log)].startdate
                 /\ seg_end = log[Len(log)].enddate

\* C27 witness: the second page of a segment was empty and ended it, the
\* records of the first page being in its frame.
C27_Witness ==
    /\ PrimaryCall /\ SegmentJustEnded
    /\ log[Len(log)].offset = 1 + limit_local
    /\ lastResp.records = <<>>
    /\ segments[Len(segments)].how = "empty page"
    /\ segments[Len(segments)].got # <<>>

---------------------------------------------------------------------------
(* A segment aborted by HTTP 400/404 *)

\* The last request was a page request answered with HTTP 400 or 404.
PageRefused ==
    /\ log # <<>> /\ log[Len(log)].service = "cdo"
    /\ lastResp.outcome = "response" /\ lastResp.status \in {400, 404}

\* The number of rows of the frames the finished segments returned.
RECURSIVE RowsOf(_)
RowsOf(segs) == IF segs = <<>> THEN 0 ELSE Head(segs).rows + RowsOf(Tail(segs))

\* C28: an HTTP 400 or 404 on any page of a segment, the first or a later
\* one, ends the segment with an empty frame and raises nothing: the fetch
\* goes on with the next segment, the fallback or the normalisation.  The
\* records of the earlier pages of that segment are in no frame, and a
\* series returned on the primary path has no point for them.
C28_RefusedSegmentIsEmpty ==
    PrimaryCall =>
        /\ \A k \in 1..Len(segments) :
              segments[k].how = "no coverage" => segments[k].rows = 0
        /\ Len(concat(all_frames)) = RowsOf(segments)
        /\ PageRefused =>
              /\ segments # <<>>
              /\ segments[Len(segments)].how = "no coverage"
              /\ segments[Len(segments)].start = log[Len(log)].startdate
              /\ Len(segments[Len(segments)].got)
                     = log[Len(log)].offset - 1
              /\ pc \in {"page", "fallback", "done"}
              /\ result.exc # "HTTPError"
              /\ pc = "done" => all_frames # <<>>
        /\ PrimarySeries => Len(result.series) = RowsOf(segments)

\* C28 witness: the second page of the only segment was answered with 404
\* after a full first page; the segment returned nothing and the fallback
\* is asked next.
C28_Witness ==
    /\ PrimaryCall /\ PageRefused /\ lastResp.status = 404
    /\ log[Len(log)].offset = 1 + limit_local
    /\ Len(segments[Len(segments)].got) = limit_local
    /\ segments[Len(segments)].rows = 0
    /\ pc = "fallback"

---------------------------------------------------------------------------
(* The order of the requests *)

\* C29 as stated: the primary requests of a fetch come segment after
\* segment by ascending start date, and inside a segment by offsets 1,
\* 1 + limit, 1 + 2 * limit, ...; no request of a segment comes before the
\* last page of the segment before it, and the fallback request comes after
\* all primary requests.
C29_AsStated ==
    PrimaryCall =>
        /\ \A i \in RequestsTo("cdo") :
              IF i = 1 THEN log[i].offset = 1
              ELSE /\ log[i - 1].service = "cdo"
                   /\ \/ /\ log[i].startdate = log[i - 1].startdate
                         /\ log[i].enddate = log[i - 1].enddate
                         /\ log[i].offset = log[i - 1].offset + limit_local
                      \/ /\ log[i].offset = 1
                         /\ log[i].startdate.day > log[i - 1].startdate.day
        /\ \A i \in RequestsTo("ads") : \A j \in RequestsTo("cdo") : j < i

---------------------------------------------------------------------------
(* _normalise_iso_date on text *)

\* The character of a text at a position, "" beyond its end.
CharAt(s, i) == IF 1 <= i /\ i <= Len(s) THEN SubSeq(s, i, i) ELSE ""

IsDigit(c) == c \in {"0", "1", "2", "3", "4", "5", "6", "7", "8", "9"}

\* int() of one digit.
DigitVal(c) ==
    CASE c = "0" -> 0 [] c = "1" -> 1 [] c = "2" -> 2 [] c = "3" -> 3
      [] c = "4" -> 4 [] c = "5" -> 5 [] c = "6" -> 6 [] c = "7" -> 7
      [] c = "8" -> 8 [] c = "9" -> 9

\* Two digits for a number below 100.
pad2(n) ==
    SubSeq("0123456789", (n \div 10) + 1, (n \div 10) + 1)
        \o SubSeq("0123456789", (n % 10) + 1, (n % 10) + 1)

\* A variant of str_strip that trims the left end only.
RECURSIVE str_lstrip(_)
str_lstrip(s) ==
    IF CharAt(s, 1) = " " THEN str_lstrip(SubSeq(s, 2, Len(s))) ELSE s

\* str.strip
RECURSIVE str_strip(_)
str_strip(s) ==
    IF CharAt(s, 1) = " " THEN str_strip(SubSeq(s, 2, Len(s)))
    ELSE IF CharAt(s, Len(s)) = " " THEN str_strip(SubSeq(s, 1, Len(s) - 1))
    ELSE s

\* text.replace("Z", "+00:00")
RECURSIVE replace_Z(_)
replace_Z(s) ==
    IF Len(s) = 0 THEN ""
    ELSE (IF CharAt(s, 1) = "Z" THEN "+00:00" ELSE CharAt(s, 1))
             \o replace_Z(SubSeq(s, 2, Len(s)))

\* The positions from i on hold n digits.
DigitsAt(s, i, n) == \A k \in i..(i + n - 1) : IsDigit(CharAt(s, k))

\* The number written by the n digits from position i on.
RECURSIVE NumberAt(_, _, _)
NumberAt(s, i, n) ==
    IF n = 0 THEN 0
    ELSE 10 * NumberAt(s, i, n - 1) + DigitVal(CharAt(s, i + n - 1))

\* _ISO_DATE_RE.match(text): the ten characters \d{4}-\d{2}-\d{2} at the
\* head of the text, None without them.
iso_date_re(text) ==
    IF /\ DigitsAt(text, 1, 4) /\ CharAt(text, 5) = "-"
       /\ DigitsAt(text, 6, 2) /\ CharAt(text, 8) = "-"
       /\ DigitsAt(text, 9, 2)
    THEN Some(SubSeq(text, 1, 10))
    ELSE None

\* The days of a month of the year 2020.
DaysIn(month) ==
    IF month = 2 THEN 29 ELSE IF month \in {4, 6, 9, 11} THEN 30 ELSE 31

\* datetime.date(year, month, day).isoformat(), None for the ValueError of
\* a date the calendar does not have.
date_isoformat(year, month, day) ==
    IF month \in 1..12 /\ day \in 1..DaysIn(month)
    THEN Some(year \o "-" \o pad2(month) \o "-" \o pad2(day))
    ELSE None

\* The text from position i on is a time HH:MM:SS with two digits each, or
\* HHMMSS when `basic`, and after it nothing or the offset +00:00.
IsoTimeAt(s, i, basic) ==
    LET n == IF basic THEN 6 ELSE 8
    IN  /\ IF basic THEN DigitsAt(s, i, 6)
           ELSE /\ DigitsAt(s, i, 2) /\ CharAt(s, i + 2) = ":"
                /\ DigitsAt(s, i + 3, 2) /\ CharAt(s, i + 5) = ":"
                /\ DigitsAt(s, i + 6, 2)
        /\ NumberAt(s, i, 2) < 24
        /\ SubSeq(s, i + n, Len(s)) \in {"", "+00:00"}

\* The Python versions the package runs on: datetime.fromisoformat reads
\* the formats of isoformat() only up to 3.10, most ISO 8601 formats since.
Builds == {"3.10", "3.11"}

\* datetime.datetime.fromisoformat(adjusted).date().isoformat(), None for
\* its ValueError.
fromisoformat(adjusted, build) ==
    IF /\ iso_date_re(adjusted) # None
       /\ \/ Len(adjusted) = 10
          \/ Len(adjusted) > 11 /\ IsoTimeAt(adjusted, 12, FALSE)
    THEN date_isoformat(SubSeq(adjusted, 1, 4), NumberAt(adjusted, 6, 2),
                        NumberAt(adjusted, 9, 2))
    ELSE IF /\ build = "3.11" /\ DigitsAt(adjusted, 1, 8)
            /\ \/ Len(adjusted) = 8
               \/ CharAt(adjusted, 9) = "T" /\ IsoTimeAt(adjusted, 10, TRUE)
    THEN date_isoformat(SubSeq(adjusted, 1, 4), NumberAt(adjusted, 5, 2),
                        NumberAt(adjusted, 7, 2))
    ELSE None

\* The number of digits, one or two, a strptime field takes at position i;
\* 0 when there is no digit.
FieldLen(s, i) ==
    IF ~ IsDigit(CharAt(s, i)) THEN 0
    ELSE IF IsDigit(CharAt(s, i + 1)) THEN 2 ELSE 1

\* datetime.datetime.strptime(text, "%Y-%m-%d" + sep + "%H:%M:%S")
\* .date().isoformat(), None for its ValueError.
strptime(text, sep) ==
    LET m == 6
        lm == FieldLen(text, m)
        d == m + lm + 1
        ld == FieldLen(text, d)
        h == d + ld + 1
        lh == FieldLen(text, h)
        mi == h + lh + 1
        lmi == FieldLen(text, mi)
        sc == mi + lmi + 1
        lsc == FieldLen(text, sc)
    IN  IF /\ DigitsAt(text, 1, 4) /\ CharAt(text, 5) = "-"
           /\ lm > 0 /\ CharAt(text, m + lm) = "-"
           /\ ld > 0 /\ CharAt(text, d + ld) = sep
           /\ lh > 0 /\ CharAt(text, h + lh) = ":"
           /\ lmi > 0 /\ CharAt(text, mi + lmi) = ":"
           /\ lsc > 0 /\ Len(text) = sc + lsc - 1
           /\ NumberAt(text, h, lh) < 24
           /\ NumberAt(text, mi, lmi) < 60
           /\ NumberAt(text, sc, lsc) < 62
        THEN date_isoformat(SubSeq(text, 1, 4), NumberAt(text, m, lm),
                            NumberAt(text, d, ld))
        ELSE None

\* _normalise_iso_date (lines 138-164) on a text.
normalise_iso_text(value, build) ==
    LET text == str_strip(value)
    IN  IF Len(value) = 0 \/ Len(text) = 0 THEN ""
        ELSE IF iso_date_re(text) # None THEN iso_date_re(text)[1]
        ELSE IF fromisoformat(replace_Z(text), build) # None
        THEN fromisoformat(replace_Z(text), build)[1]
        ELSE IF strptime(text, "T") # None THEN strptime(text, "T")[1]
        ELSE IF strptime(text, " ") # None THEN strptime(text, " ")[1]
        ELSE text

\* The texts followed, each with the date it names for a reader ("" when it
\* names none in any format the function knows) and whether only
\* fromisoformat of Python 3.11 reads it.
DateBodies ==
    { [text |-> "2020-01-05", names |-> "2020-01-05", late |-> FALSE],
      [text |-> "2020-01-05T10:00:00", names |-> "2020-01-05", late |-> FALSE],
      [text |-> "2020-01-05T10:00:00Z", names |-> "2020-01-05", late |-> FALSE],
      [text |-> "2020-13-45", names |-> "2020-13-45", late |-> FALSE],
      [text |-> "2020-1-5T1:02:03", names |-> "2020-01-05", late |-> FALSE],
      [text |-> "2020-1-5 1:02:03", names |-> "2020-01-05", late |-> FALSE],
      [text |-> "20200105", names |-> "2020-01-05", late |-> TRUE],
      [text |-> "20200105T100000Z", names |-> "2020-01-05", late |-> TRUE],
      [text |-> "2020-1-5", names |-> "", late |-> FALSE],
      [text |-> "2020-2-30T1:02:03", names |-> "", late |-> FALSE],
      [text |-> "n/a", names |-> "", late |-> FALSE],
      [text |-> "Z", names |-> "", late |-> FALSE],
      [text |-> "", names |-> "", late |-> FALSE] }

Blanks == {"", " "}

\* _normalise_iso_date is called on a text with blanks around it.
CallNormalise ==
    /\ pc = "idle"
    /\ \E body \in DateBodies, lead \in Blanks, trail \in Blanks, build \in Builds :
          args' = [value |-> lead \o body.text \o trail, body |-> body,
                   build |-> build]
    /\ pc' = "normalise"
    /\ UNCHANGED <<current_start, current_end, seg_start, seg_end,
                   offset_local, collected, total_count_local, all_frames,
                   result, log, lastResp, segments, served, daily, reported,
                   probed, cache, earliest, failed, located, exit_code,
                   out_file, heard, other, gui, ttl>>

\* The function returns.
NormaliseOnce ==
    /\ pc = "normalise"
    /\ pc' = "normalised"
    /\ result' = Returned(<<normalise_iso_text(args.value, args.build)>>)
    /\ UNCHANGED <<args, current_start, current_end, seg_start, seg_end,
                   offset_local, collected, total_count_local, all_frames,
                   log, lastResp, segments, served, daily, reported,
                   probed, cache, earliest, failed, located, exit_code,
                   out_file, heard, other, gui, ttl>>

\* The function is called on what it returned.
NormaliseAgain ==
    /\ pc = "normalised"
    /\ pc' = "done"
    /\ result' = Returned(Append(result.series,
                     normalise_iso_text(result.series[1], args.build)))
    /\ UNCHANGED <<args, current_start, current_end, seg_start, seg_end,
                   offset_local, collected, total_count_local, all_frames,
                   log, lastResp, segments, served, daily, reported,
                   probed, cache, earliest, failed, located, exit_code,
                   out_file, heard, other, gui, ttl>>

DateNext == CallNormalise \/ NormaliseOnce \/ NormaliseAgain

DateSpec == Init /\ [][DateNext]_vars

\* C30: _normalise_iso_date applied to its own result returns that result;
\* a YYYY-MM-DD text is returned unchanged; a text that names a date in a
\* format the function reads gives that date as YYYY-MM-DD; and a text that
\* matches no format is returned trimmed.
C30_NormaliseIdempotent ==
    /\ pc = "normalised" =>
          LET once == result.series[1]
              body == args.body
          IN  /\ iso_date_re(once) # None
                    => Len(once) = 10 /\ (Len(body.text) = 10 => once = body.text)
              /\ once = IF body.names = "" \/ (body.late /\ args.build = "3.10")
                        THEN body.text ELSE body.names
    /\ (pc = "done" /\ Len(result.series) = 2)
          => result.series[2] = result.series[1]

\* C30 witness: a date-time text with single-digit fields and blanks around
\* it was normalised to its date, and the second application returned the
\* same.
C30_Witness ==
    /\ pc = "done" /\ Len(result.series) = 2
    /\ args.value = " 2020-1-5T1:02:03 "
    /\ result.series = <<"2020-01-05", "2020-01-05">>

---------------------------------------------------------------------------
(* The normalisation of a frame (lines 457-471) *)

\* The names a service may give the column of its dates and the column of
\* its rainfall values.
DateNames == {"date", "Datetime", "DATE"}
ValueNames == {"value", "Rainfall", "PRCP", "prcp", "PRCP_MM", "precipitation"}

\* The columns of a frame: an identifier, at most one of the date names and
\* at most one of the value names.
FrameSchemas ==
    {{"station"} \cup d \cup v :
        d \in {{}} \cup {{n} : n \in DateNames},
        v \in {{}} \cup {{n} : n \in ValueNames}}

\* A frame of records reaches line 457, from the CDO pages of a call or from
\* the answer of a generic service.
CallNormaliseFrame ==
    /\ pc = "idle"
    /\ \E url \in {NOAA_URL, GENERIC_URL}, columns \in FrameSchemas,
          unparsed \in DateTexts,
          records \in SeqsUpTo(Records, limit_local) \ {<<>>} :
          /\ args' = [NoArgs EXCEPT !.url = url, !.datatype = "PRCP"]
          /\ lastResp' = [NoAnswer EXCEPT !.columns = columns,
                             !.unparsed = unparsed, !.records = records]
    /\ pc' = "frame"
    /\ UNCHANGED <<current_start, current_end, seg_start, seg_end,
                   offset_local, collected, total_count_local, all_frames,
                   result, log, segments, served, daily, reported,
                   probed, cache, earliest, failed, located, exit_code,
                   out_file, heard, other, gui, ttl>>

\* Lines 457-471 on that frame.
NormaliseFrame ==
    /\ pc = "frame"
    /\ pc' = "framed"
    /\ result' = normalise(lastResp.records, lastResp.columns, lastResp.unparsed)
    /\ UNCHANGED <<args, current_start, current_end, seg_start, seg_end,
                   offset_local, collected, total_count_local, all_frames,
                   log, lastResp, segments, served, daily, reported,
                   probed, cache, earliest, failed, located, exit_code,
                   out_file, heard, other, gui, ttl>>

FrameNext == CallNormaliseFrame \/ NormaliseFrame

FrameSpec == Init /\ [][FrameNext]_vars

\* The value names the claim lists for a requested datatype.
ListedValueNames(datatype) ==
    {"value", "Rainfall", datatype, upper(datatype), lower(datatype),
     "PRCP", "PRCP_MM", "PRCP_IN", "PRECIP", "precipitation"}

\* The call failed for a column that is missing.
MissingField ==
    /\ result.kind = "error" /\ result.exc = "ValueError"
    /\ result.msg \in {"Response missing 'date' field",
                       "Response missing 'value' field"}

\* C31 as stated: a frame with a date column named date, Datetime or DATE
\* (its dates parsing) and a value column named value, Rainfall, the
\* datatype id in any case or one of the listed precipitation names is
\* normalised without error.
C31_AsStated ==
    (/\ pc = "framed" /\ lastResp.unparsed = ""
     /\ lastResp.columns \cap DateNames # {}
     /\ lastResp.columns \cap ListedValueNames(args.datatype) # {})
        => result.kind = "ok"

\* C31: a frame with a date column named date or Datetime whose dates parse
\* and a value column named value or Rainfall is normalised to its rows in
\* ascending order; and the normalisation fails for a missing field only
\* when the frame has no column of those date names or none of those value
\* names, as it does for every frame without a date or Datetime column.
C31_KnownColumnsNormalise ==
    pc = "framed" =>
        /\ lastResp.columns \cap {"date", "Datetime"} = {} => MissingField
        /\ (/\ lastResp.columns \cap {"date", "Datetime"} # {}
            /\ lastResp.unparsed = ""
            /\ lastResp.columns \cap {"value", "Rainfall"} # {})
              => result = Returned(sort_values(Rows(lastResp.records)))
        /\ MissingField
              => \/ lastResp.columns \cap {"date", "Datetime"} = {}
                 \/ lastResp.columns \cap {"value", "Rainfall"} = {}

\* C31 witness: a frame of two records with the columns Datetime and
\* Rainfall, its dates parsing, was normalised to a series of two points.
C31_Witness ==
    /\ pc = "framed" /\ lastResp.unparsed = ""
    /\ {"Datetime", "Rainfall"} \subseteq lastResp.columns
    /\ result.kind = "ok" /\ Len(result.series) = 2

---------------------------------------------------------------------------
(* The rainfall column of the fallback (lines 1044-1070) *)

\* The datatype ids asked for.
ColumnDatatypes == {NoneStr, "PRCP", "Prcp", "prcp", "SNOW"}

\* The columns an ADS frame may have besides DATE.
ColumnNames ==
    {"PRCP", "prcp", "Prcp", "PRCP_MM", "precipitation", "value", "SNOW", "snow"}

\* _fetch_rainfall_ads_fallback is called for a datatype and the service
\* answers with one record of some columns.
CallColumns ==
    /\ pc = "idle"
    /\ \E datatype \in ColumnDatatypes, columns \in SUBSET ColumnNames,
          dated \in BOOLEAN, r \in Records :
          /\ Cardinality(columns) <= 3
          /\ args' = [NoArgs EXCEPT !.url = NOAA_URL, !.datatype = datatype]
          /\ lastResp' = [Failure("ads", "response", 200) EXCEPT
                             !.content_type = "application/json",
                             !.columns = columns
                                 \cup (IF dated THEN {"DATE"} ELSE {}),
                             !.records = <<r>>]
    /\ pc' = "columns"
    /\ UNCHANGED <<current_start, current_end, seg_start, seg_end,
                   offset_local, collected, total_count_local, all_frames,
                   result, log, segments, served, daily, reported,
                   probed, cache, earliest, failed, located, exit_code,
                   out_file, heard, other, gui, ttl>>

\* Lines 1022-1070 on that answer; what is kept of a frame returned is the
\* name of the column its Rainfall was taken from.
PickColumn ==
    /\ pc = "columns"
    /\ pc' = "picked"
    /\ result' = IF fetch_rainfall_ads_fallback(args, lastResp).kind = "ok"
                 THEN Returned(rainfall_col_of(args.datatype, lastResp.columns))
                 ELSE fetch_rainfall_ads_fallback(args, lastResp)
    /\ UNCHANGED <<args, current_start, current_end, seg_start, seg_end,
                   offset_local, collected, total_count_local, all_frames,
                   log, lastResp, segments, served, daily, reported,
                   probed, cache, earliest, failed, located, exit_code,
                   out_file, heard, other, gui, ttl>>

ColumnNext == CallColumns \/ PickColumn

ColumnSpec == Init /\ [][ColumnNext]_vars

\* The names tried for the rainfall column, in order: the datatype id, its
\* upper case and its lower case when a datatype is asked for, then a list
\* of common names.
Candidates(datatype, common) ==
    (IF datatype # NoneStr
     THEN <<datatype, upper(datatype), lower(datatype)>> ELSE <<>>) \o common

\* The fallback took the first of the candidates that is a column of the
\* frame, and failed for a missing rainfall field when none is.
PicksFirstOf(candidates) ==
    IF \E i \in 1..Len(candidates) : candidates[i] \in lastResp.columns
    THEN \E i \in 1..Len(candidates) :
            /\ candidates[i] \in lastResp.columns
            /\ \A j \in 1..(i - 1) : candidates[j] \notin lastResp.columns
            /\ result = Returned(<<candidates[i]>>)
    ELSE /\ result.kind = "error" /\ result.exc = "ValueError"
         /\ result.msg = "Response missing rainfall field"

\* C32 as stated: the common names are PRCP, PRCP_MM, PRCP_IN, PRECIP and
\* precipitation.
C32_AsStated ==
    (pc = "picked" /\ "DATE" \in lastResp.columns)
        => PicksFirstOf(Candidates(args.datatype,
               <<"PRCP", "PRCP_MM", "PRCP_IN", "PRECIP", "precipitation">>))

\* C32: the fallback takes its rainfall from the first present of the
\* datatype id, its upper case, its lower case, and otherwise from the first
\* present of PRCP, prcp, PRCP_MM, PRCP_IN, PRECIP, precipitation, value;
\* with none of them in a frame that has records and a date column it
\* raises the missing-rainfall-field error.
C32_RainfallColumn ==
    (pc = "picked" /\ "DATE" \in lastResp.columns)
        => PicksFirstOf(Candidates(args.datatype,
               <<"PRCP", "prcp", "PRCP_MM", "PRCP_IN", "PRECIP",
                 "precipitation", "value">>))

\* C32 witness: asked for Prcp, a frame with the columns prcp, PRCP and
\* value had its rainfall taken from PRCP.
C32_Witness ==
    /\ pc = "picked" /\ args.datatype = "Prcp"
    /\ {"DATE", "prcp", "PRCP", "value"} \subseteq lastResp.columns
    /\ result = Returned(<<"PRCP">>)

---------------------------------------------------------------------------
(* The pagination loop against a server that pages as documented *)

\* The call followed: one segment, the whole range.
HonestArgs ==
    [url |-> NOAA_URL, station |-> <<"US1PAAL0001">>, start |-> IsoDate(1),
     end |-> IsoDate(MaxDay), dataset |-> "GHCND", datatype |-> "PRCP",
     chunk_days |-> None]

\* fetch_rainfall is called; the CDO API holds a list of records for the
\* range, up to two full pages and one more, and either reports their number
\* with every page or reports none.  `heard` keeps what the server holds.
CallHonest ==
    /\ pc = "idle"
    /\ args' = HonestArgs
    /\ enter(HonestArgs)
    /\ \E held \in SeqsUpTo(Records, 2 * limit_local + 1), counted \in BOOLEAN :
          heard' = <<[NoAnswer EXCEPT
                         !.records = held,
                         !.count = IF counted THEN Some(Len(held)) ELSE None]>>
    /\ UNCHANGED <<log, lastResp, segments, served, daily, reported, probed,
                   cache, earliest, failed, located, exit_code, out_file,
                   other, gui, ttl>>

\* The page of `limit` records the server sends for a 1-based offset.
honest_page(held, offset, limit) ==
    SubSeq(held, offset, Min(offset + limit - 1, Len(held)))

\* One page request of _fetch_noaa_segment, answered from what the server
\* holds.
HonestPage ==
    /\ pc = "page"
    /\ page_answered([Failure("cdo", "response", 200) EXCEPT
                         !.content_type = "application/json",
                         !.count = heard[1].count,
                         !.records = honest_page(heard[1].records,
                                                 offset_local, limit_local)])
    /\ UNCHANGED <<heard, other, gui, ttl>>

HonestNext == CallHonest \/ HonestPage

HonestSpec == Init /\ [][HonestNext]_vars

\* The records the server holds and whether it reports their number.
Held == heard[1].records
Counted == heard[1].count # None

\* C33: against a server that holds N records, serves them in full pages by
\* 1-based offset and reports N as count or no count, the loop has at every
\* request collected exactly the records before its offset, the segment
\* ends with the N records, each once and in the server's order, and when N
\* is a positive multiple of the page size and the count is reported every
\* request was answered with records: N / limit requests were sent.
C33_HonestPagination ==
    /\ (pc = "page" /\ heard # <<>>)
          => collected = SubSeq(Held, 1, offset_local - 1)
    /\ (heard # <<>> /\ segments # <<>>)
          => /\ Len(segments) = 1
             /\ segments[1].got = Held
             /\ segments[1].rows = Len(Held)
             /\ (Counted /\ Len(Held) > 0 /\ Len(Held) % limit_local = 0)
                   => /\ Len(log) = Len(Held) \div limit_local
                      /\ lastResp.records # <<>>

\* C33 witness: the server holds two full pages and reports the count; the
\* segment ended after two requests with all the records.
C33_Witness ==
    /\ heard # <<>> /\ segments # <<>>
    /\ Counted /\ Len(Held) = 2 * limit_local
    /\ Len(log) = 2 /\ segments[1].got = Held
    /\ segments[1].how = "count reached"

---------------------------------------------------------------------------
(* The progress of the segment loop *)

\* C34 as stated: for every chunk_days that is set, negative values
\* included, and parseable start <= end, each segment starts after the one
\* before it, at most end - start + 1 segments are requested, and no
\* segment requested ends before it starts.
C34_AsStated ==
    (/\ PrimaryCall /\ ChunkingRequested /\ BothDatesParse
     /\ coerce_date(args.start)[1] <= coerce_date(args.end)[1])
        => /\ \A i, j \in 1..Len(SegmentRequests) :
                 i < j => SegmentRequests[i].startdate.day
                              < SegmentRequests[j].startdate.day
           /\ Len(SegmentRequests)
                 <= coerce_date(args.end)[1] - coerce_date(args.start)[1] + 1
           /\ \A i \in 1..Len(SegmentRequests) :
                 SegmentRequests[i].startdate.day
                     <= SegmentRequests[i].enddate.day

---------------------------------------------------------------------------
(* has_data_in_range after fetch_rainfall, the servers answering alike *)

\* A fetch runs to its end and has_data_in_range is then called for the same
\* station, dataset, datatype and range.  The servers answer the probe as
\* they answered the fetch: the CDO API with the status of its first answer
\* and, the probe asking for one record, the first record of that answer;
\* the Access Data Service with the answer it gave.  `other` keeps the fetch,
\* `heard` the answers it got.

\* The calls followed: the whole range in one segment.
AgreeArgs ==
    [url : {NOAA_URL}, station : Stations,
     start : {IsoDate(1)}, end : {IsoDate(MaxDay)},
     dataset : {"GHCND"}, datatype : {"PRCP"}, chunk_days : {None}]

\* fetch_rainfall is called.
AgreeCall ==
    /\ pc = "idle" /\ other = NoFetch
    /\ \E a \in AgreeArgs :
          /\ args' = a
          /\ enter(a)
    /\ UNCHANGED <<log, lastResp, segments, served, daily, reported, probed,
                   cache, earliest, failed, located, exit_code, out_file,
                   heard, other, gui, ttl>>

\* One page request of the fetch and its answer, a JSON body or a failure.
AgreePage ==
    /\ pc = "page" /\ other = NoFetch
    /\ Len(log) < MaxRequests
    /\ \E resp \in {r \in PrimaryResponses(Room) :
                       r.status = 200 => is_json(r.content_type)} :
          /\ page_answered(resp)
          /\ heard' = Append(heard, resp)
    /\ UNCHANGED <<other, gui, ttl>>

\* The fallback request of the fetch and its answer.
AgreeFallback ==
    /\ pc = "fallback" /\ other = NoFetch
    /\ \E resp \in FallbackResponses(Room) :
          /\ fallback_answered(resp)
          /\ heard' = Append(heard, resp)
    /\ UNCHANGED <<other, gui, ttl>>

\* The fetch is over; has_data_in_range is called with its arguments.
ThenProbe ==
    /\ pc = "done" /\ other = NoFetch
    /\ other' = Running
    /\ UNCHANGED <<gui, ttl>>
    /\ pc' = "probe"
    /\ result' = Pending
    /\ log' = <<>>
    /\ lastResp' = NoAnswer
    /\ UNCHANGED <<args, current_start, current_end, seg_start, seg_end,
                   offset_local, collected, total_count_local, all_frames,
                   segments, served, daily, reported, probed, cache,
                   earliest, failed, located, exit_code, out_file, heard>>

\* What the CDO API sends for `limit` records when it sent `resp` for a page.
limited(resp, limit) ==
    [resp EXCEPT !.records = SubSeq(resp.records, 1, Min(limit, Len(resp.records))),
                 !.count = None]

\* The answers of a service among the answers heard.
HeardFrom(service) == SelectSeq(heard, LAMBDA r : r.service = service)

\* The probe (limit 1) is answered as the first page of the fetch was.
ProbeSame ==
    /\ pc = "probe" /\ other # NoFetch
    /\ HeardFrom("cdo") # <<>>
    /\ probe_answered(limited(HeardFrom("cdo")[1], 1))
    /\ UNCHANGED <<heard, other, gui, ttl>>

\* The fallback request of the probe is answered as the one of the fetch
\* was.
ProbeFallbackSame ==
    /\ pc = "probe_fallback" /\ other # NoFetch
    /\ HeardFrom("ads") # <<>>
    /\ probe_fallback_answered(HeardFrom("ads")[1])
    /\ UNCHANGED <<heard, other, gui, ttl>>

AgreeNext ==
    \/ AgreeCall \/ AgreePage \/ AgreeFallback
    \/ ThenProbe \/ ProbeSame \/ ProbeFallbackSame

AgreeSpec == Init /\ [][AgreeNext]_vars

\* The probe that followed the fetch has returned.
Probed == pc = "done" /\ other # NoFetch

\* C35 as stated: whenever the fetch returned a series that is not empty,
\* has_data_in_range, answered alike, returns true.
C35_AsStated ==
    (Probed /\ other.result.kind = "ok" /\ other.result.series # <<>>)
        => result = ReturnedValue(TRUE)

----------------------------------------------------------------------------
(* The batch queue of the window (window.py) *)

\* Everything but the window.
fetching == <<pc, args, current_start, current_end, seg_start, seg_end,
              offset_local, collected, total_count_local, all_frames, result,
              log, lastResp, segments, served, daily, reported, probed,
              cache, earliest, failed, located, exit_code, out_file, heard,
              other, ttl>>

\* _refresh_queue_view: Start Queue is enabled when the queue holds a job
\* and is not active.
refresh_queue_view(g) ==
    [g EXCEPT !.start_queue_btn = g.queue # <<>> /\ ~ g.queue_active]

\* _launch_job on a job whose preparation succeeds (ok) or fails: on
\* success it disables Run, enables Cancel and calls process.start, whatever
\* the state of the process.  QProcess.start on a process that is running
\* starts nothing.
launch_job(g, ok) ==
    IF ~ ok THEN g
    ELSE [g EXCEPT !.run_btn = FALSE,
                   !.cancel_btn = TRUE,
                   !.state = "Running",
                   !.killed = IF g.state = "NotRunning" THEN FALSE ELSE @,
                   !.clash = @ \/ g.state # "NotRunning",
                   !.starts = @ + 1]

\* _start_next_job when the launches of the first `fails` jobs of the queue
\* fail: it pops jobs until one is launched; when none is left it ends the
\* queue, enables Run and disables Cancel.
start_next_job(g, fails) ==
    LET n == Len(g.queue)
        seen == [g EXCEPT !.late = @ \/ (g.stopped /\ n > 0)]
    IN  IF fails < n
        THEN launch_job(refresh_queue_view(
                 [seen EXCEPT !.queue = SubSeq(g.queue, fails + 2, n)]), TRUE)
        ELSE refresh_queue_view(
                 [seen EXCEPT !.queue = <<>>,
                              !.queue_active = FALSE,
                              !.run_btn = TRUE,
                              !.start_queue_btn = FALSE,
                              !.cancel_btn = FALSE])

\* _add_to_queue: the user adds one job or several.
AddToQueue ==
    /\ gui.added < MaxJobs
    /\ \E n \in 1..(MaxJobs - gui.added) :
          gui' = refresh_queue_view(
                     [gui EXCEPT !.queue = @ \o [i \in 1..n |-> gui.added + i],
                                 !.added = @ + n])
    /\ UNCHANGED fetching

\* _start_queue: Start Queue is pressed.
StartQueue ==
    /\ gui.start_queue_btn
    /\ ~ gui.queue_active
    /\ gui.queue # <<>>
    /\ \E fails \in 0..Len(gui.queue) :
          gui' = start_next_job([gui EXCEPT !.queue_active = TRUE,
                                            !.run_btn = FALSE,
                                            !.start_queue_btn = FALSE,
                                            !.stopped = FALSE], fails)
    /\ UNCHANGED fetching

\* _run: Run is pressed.
Run ==
    /\ gui.run_btn
    /\ gui.runs < MaxRuns
    /\ \E ok \in BOOLEAN : gui' = launch_job([gui EXCEPT !.runs = @ + 1], ok)
    /\ UNCHANGED fetching

\* _cancel: Cancel is pressed.
Cancel ==
    /\ gui.cancel_btn
    /\ LET killing == [gui EXCEPT !.killed = @ \/ gui.state # "NotRunning"]
       IN  gui' = IF gui.queue_active
                  THEN refresh_queue_view([killing EXCEPT !.queue_active = FALSE,
                                                          !.stopped = TRUE])
                  ELSE killing
    /\ UNCHANGED fetching

\* _process_finished: the download process has ended, by itself or killed.
ProcessFinished ==
    /\ gui.state = "Running"
    /\ \E code \in {0, 1} :
          gui' = [gui EXCEPT !.state = "NotRunning",
                             !.killed = FALSE,
                             !.run_btn = TRUE,
                             !.cancel_btn = FALSE,
                             !.timers = IF gui.queue_active THEN @ + 1 ELSE @]
    /\ UNCHANGED fetching

\* A timer set by _process_finished fires and calls _start_next_job.
TimerFires ==
    /\ gui.timers > 0
    /\ \E fails \in 0..Len(gui.queue) :
          gui' = start_next_job([gui EXCEPT !.timers = @ - 1], fails)
    /\ UNCHANGED fetching

\* _clear_queue: Clear Queue is pressed.
ClearQueue ==
    /\ gui.queue # <<>>
    /\ LET cleared == refresh_queue_view([gui EXCEPT !.queue = <<>>])
       IN  gui' = IF ~ gui.queue_active
                  THEN [cleared EXCEPT !.start_queue_btn = FALSE]
                  ELSE cleared
    /\ UNCHANGED fetching

\* _remove_queue_item: Remove Selected is pressed on a row of the queue.
RemoveQueueItem ==
    /\ \E row \in 1..Len(gui.queue) :
          gui' = refresh_queue_view(
                     [gui EXCEPT !.queue = SubSeq(@, 1, row - 1)
                                           \o SubSeq(@, row + 1, Len(@))])
    /\ UNCHANGED fetching

GuiNext ==
    \/ AddToQueue
    \/ StartQueue
    \/ Run
    \/ Cancel
    \/ ProcessFinished
    \/ TimerFires
    \/ ClearQueue
    \/ RemoveQueueItem

GuiSpec == Init /\ [][GuiNext]_vars

\* C36 (as stated): once Cancel has stopped the queue, no queued job is
\* popped or launched until the user starts the queue again.
C36_AsStated == ~ gui.late

\* C37 (as stated): process.start is called only when the download process
\* is not running.
C37_AsStated == ~ gui.clash

----------------------------------------------------------------------------
(* The metadata cache in time: _cache_get and _cache_set called by threads *)

\* Everything but the cache in time.
windowed == <<pc, args, current_start, current_end, seg_start, seg_end,
              offset_local, collected, total_count_local, all_frames, result,
              log, lastResp, segments, served, daily, reported, probed,
              cache, earliest, failed, located, exit_code, out_file, heard,
              other, gui>>

\* The values the callers hand to _cache_set: lists whose items are lists
\* (available_datasets) or tuples (a caller that does not convert first).
\* A value is written as the kinds of its items.
CachedValues == {<<"list">>, <<"tuple">>}

\* json.loads(json.dumps(value)): a new object; a tuple comes back as a list.
json_copy(value) == [i \in 1..Len(value) |-> "list"]

\* A variant: the entry is dropped at the instant it expires.
expired_at(expires, now) == expires # 0 /\ expires <= now

\* `if expires and expires < now` of _cache_get.
expired(expires, now) == expires # 0 /\ expires < now

\* The state of the cache after thread t has moved to `self`.
moved(t, self) == [ttl EXCEPT !.threads[t] = self]

\* _cache_get is called: it reads the clock before it asks for the lock.
CacheGet ==
    /\ ttl.calls < MaxCalls
    /\ \E t \in Threads, key \in KeyParts :
          /\ ttl.threads[t].pc = "outside"
          /\ ttl' = [moved(t, [Outside EXCEPT !.pc = "get",
                                              !.key = key,
                                              !.now = ttl.clock])
                       EXCEPT !.calls = @ + 1]
    /\ UNCHANGED windowed

\* _cache_set is called: it reads the clock, computes the expiry and copies
\* the value before it asks for the lock.
CacheSet ==
    /\ ttl.calls < MaxCalls
    /\ \E t \in Threads, key \in KeyParts, value \in CachedValues :
          /\ ttl.threads[t].pc = "outside"
          /\ ttl' = [moved(t, [Outside EXCEPT
                                  !.pc = "set",
                                  !.key = key,
                                  !.now = ttl.clock,
                                  !.expires = ttl.clock + CACHE_TTL_SECONDS,
                                  !.arg = Len(ttl.heap) + 1,
                                  !.value = Len(ttl.heap) + 2])
                       EXCEPT !.calls = @ + 1,
                              !.heap = @ \o <<value, json_copy(value)>>]
    /\ UNCHANGED windowed

\* _cache_get takes the lock and looks the key up: no entry, an expired
\* entry that it removes, or an entry whose value it reads.
GetLocked ==
    /\ ttl.lock = 0
    /\ \E t \in Threads :
          LET self == ttl.threads[t]
              entry == ttl.store[self.key]
          IN  /\ self.pc = "get"
              /\ IF entry = None
                 THEN ttl' = [moved(t, [self EXCEPT !.pc = "got"])
                                EXCEPT !.lock = t]
                 ELSE IF expired(entry[1].expires, self.now)
                 THEN ttl' = [moved(t, [self EXCEPT !.pc = "got",
                                                    !.entry = entry])
                                EXCEPT !.lock = t, !.store[self.key] = None]
                 ELSE ttl' = [moved(t, [self EXCEPT !.pc = "got",
                                                    !.entry = entry,
                                                    !.value = entry[1].value])
                                EXCEPT !.lock = t]
    /\ UNCHANGED windowed

\* _cache_set takes the lock and stores the copy with its expiry.  `at` and
\* `stored` are history: the clock the call read and the value it stored.
SetLocked ==
    /\ ttl.lock = 0
    /\ \E t \in Threads :
          LET self == ttl.threads[t]
          IN  /\ self.pc = "set"
              /\ ttl' = [moved(t, [self EXCEPT !.pc = "stored"])
                           EXCEPT !.lock = t,
                                  !.store[self.key] =
                                      Some([value |-> self.value,
                                            expires |-> self.expires,
                                            at |-> self.now,
                                            stored |-> ttl.heap[self.value]])]
    /\ UNCHANGED windowed

\* The `with _CACHE_LOCK` block ends: _cache_set returns, _cache_get
\* returns None or goes on to copy the value it read.
Release ==
    /\ \E t \in Threads :
          LET self == ttl.threads[t]
          IN  /\ ttl.lock = t
              /\ self.pc \in {"got", "stored"}
              /\ ttl' = [moved(t, IF self.pc = "got" /\ self.value # 0
                                   THEN [self EXCEPT !.pc = "copy"]
                                   ELSE [Outside EXCEPT !.arg = self.arg])
                           EXCEPT !.lock = 0]
    /\ UNCHANGED windowed

\* _cache_get returns json.loads(json.dumps(value)).
CopyOut ==
    /\ \E t \in Threads :
          LET self == ttl.threads[t]
          IN  /\ self.pc = "copy"
              /\ ttl' = [moved(t, [Outside EXCEPT !.ret = Len(ttl.heap) + 1])
                           EXCEPT !.heap = Append(@, json_copy(ttl.heap[self.value]))]
    /\ UNCHANGED windowed

\* A caller appends an item to the list it passed or to the one it got.
Mutate ==
    /\ \E t \in Threads :
          LET self == ttl.threads[t]
          IN  /\ self.pc = "outside"
              /\ \E object \in {self.arg, self.ret} \ {0} :
                    /\ Len(ttl.heap[object]) < 2
                    /\ ttl' = [ttl EXCEPT !.heap[object] = Append(@, "list")]
    /\ UNCHANGED windowed

\* Time passes.
Tick ==
    /\ ttl.clock < MaxClock
    /\ ttl' = [ttl EXCEPT !.clock = @ + 1]
    /\ UNCHANGED windowed

TtlNext ==
    \/ CacheGet
    \/ CacheSet
    \/ GetLocked
    \/ SetLocked
    \/ Release
    \/ CopyOut
    \/ Mutate
    \/ Tick

TtlSpec == Init /\ [][TtlNext]_vars

\* C38: the cache never serves an expired entry.  An entry stored by a
\* _cache_set that read the clock at t expires at t + 24h and keeps the
\* value stored, whatever its callers do to the objects they hold; a
\* _cache_get that read the clock at `now` and found the entry returns its
\* value while now <= t + 24h, and otherwise returns None and removes the
\* entry; the value it goes on to return is a copy equal to the stored one;
\* and only the thread that holds the lock is inside a locked block.
C38_NeverServesExpired ==
    /\ \A key \in KeyParts :
          ttl.store[key] # None
              => /\ ttl.store[key][1].expires
                        = ttl.store[key][1].at + CACHE_TTL_SECONDS
                 /\ ttl.heap[ttl.store[key][1].value] = ttl.store[key][1].stored
    /\ \A t \in Threads :
          LET self == ttl.threads[t]
          IN  /\ self.pc \in {"got", "stored"} <=> ttl.lock = t
              /\ self.pc = "got" /\ self.entry = None => self.value = 0
              /\ self.pc = "got" /\ self.entry # None
                    => IF self.now <= self.entry[1].at + CACHE_TTL_SECONDS
                       THEN /\ self.value = self.entry[1].value
                            /\ ttl.store[self.key] = self.entry
                       ELSE /\ self.value = 0
                            /\ ttl.store[self.key] = None
              /\ self.pc = "copy"
                    => /\ json_copy(ttl.heap[self.value]) = self.entry[1].stored
                       /\ self.now <= self.entry[1].at + CACHE_TTL_SECONDS

\* A _cache_get has found an entry past its lifetime, removed it and is
\* about to return None, while a caller has changed a list it holds.
C38_Witness ==
    /\ \E t \in Threads :
          /\ ttl.threads[t].pc = "got"
          /\ ttl.threads[t].entry # None
          /\ ttl.threads[t].now > ttl.threads[t].entry[1].at + CACHE_TTL_SECONDS
          /\ ttl.store[ttl.threads[t].key] = None
    /\ \E object \in 1..Len(ttl.heap) : Len(ttl.heap[object]) = 2

===========================================================================
